---- MODULE Spec2Model ----
(***************************************************************************)
(* Provider resolution and invocation layer of nanobot-rs                  *)
(* (src/providers/litellm.rs): the provider catalog, gateway selection,    *)
(* model-name resolution, per-model overrides, the environment side effect *)
(* of provider construction, the chat call with its fallback and the       *)
(* normalisation of its reply; and the no-tools classifier of              *)
(* src/agent/turn_guard.rs.                                                *)
(*                                                                         *)
(* Strings are TLC strings (Len, \o and SubSeq work on them).  An          *)
(* Option<T> is the record [some, v].  A &'static ProviderSpec is the      *)
(* descriptor's index in PROVIDERS, and 0 stands for no descriptor.        *)
(* An f32 temperature is an integer number of tenths (0.2 is 2).           *)
(***************************************************************************)
EXTENDS Integers, Sequences, FiniteSets, TLC

VARIABLES
    env,         \* the process environment: variable name -> Option<String>
    env_before,  \* the environment as the latest construction found it
    provider,    \* the LiteLLMProvider built by the latest construction
    ctor,        \* the arguments of the latest LiteLLMProvider::new call
    sel,         \* a find_gateway call: its arguments and its result
    res,         \* a resolve_model / apply_model_overrides call on provider
    chat,        \* the chat call in progress on provider
    guard,       \* a TurnGuard and its should_retry_after_false_no_tools_claim call
    chats,       \* the chat calls in progress on provider, one per caller
    ctors        \* the LiteLLMProvider::new calls in progress, one per thread

vars == <<env, env_before, provider, ctor, sel, res, chat, guard, chats, ctors>>

----------------------------------------------------------------------------
(* Option<T> *)

None == [some |-> FALSE, v |-> ""]

Some(s) == [some |-> TRUE, v |-> s]

----------------------------------------------------------------------------
(* str operations of the Rust standard library used by the code *)

\* str::starts_with
StartsWith(s, p) == Len(p) <= Len(s) /\ SubSeq(s, 1, Len(p)) = p

\* str::contains
Contains(s, p) ==
    \E i \in 0..(Len(s) - Len(p)) : SubSeq(s, i + 1, i + Len(p)) = p

UpperLetters == "ABCDEFGHIJKLMNOPQRSTUVWXYZ"

LowerLetters == "abcdefghijklmnopqrstuvwxyz"

\* the lower-case letter of each upper-case ASCII letter
LowerOf ==
    [c \in {SubSeq(UpperLetters, i, i) : i \in 1..Len(UpperLetters)} |->
        LET i == CHOOSE j \in 1..Len(UpperLetters) : SubSeq(UpperLetters, j, j) = c
        IN  SubSeq(LowerLetters, i, i)]

\* char::to_lowercase on one character (ASCII letters; others map to themselves)
LowerChar(c) == IF c \in DOMAIN LowerOf THEN LowerOf[c] ELSE c

\* str::to_lowercase
RECURSIVE to_lowercase(_)
to_lowercase(s) ==
    IF s = "" THEN ""
    ELSE LowerChar(SubSeq(s, 1, 1)) \o to_lowercase(SubSeq(s, 2, Len(s)))

\* model.rsplit('/').next().unwrap_or(model): the part after the last '/'
rsplit_next(s) ==
    LET slashes == {i \in 1..Len(s) : SubSeq(s, i, i) = "/"}
    IN  IF slashes = {} THEN s
        ELSE LET last == CHOOSE i \in slashes : \A j \in slashes : j <= i
             IN  SubSeq(s, last + 1, Len(s))

\* str::replace with a non-empty pattern: every non-overlapping match, left to right
RECURSIVE replace(_, _, _)
replace(s, from, to) ==
    IF s = "" THEN ""
    ELSE IF StartsWith(s, from)
         THEN to \o replace(SubSeq(s, Len(from) + 1, Len(s)), from, to)
         ELSE SubSeq(s, 1, 1) \o replace(SubSeq(s, 2, Len(s)), from, to)

----------------------------------------------------------------------------
(* The provider catalog *)

ModelOverride(pattern, temperature) ==
    [pattern |-> pattern, temperature |-> temperature]

EnvExtra(key, value_template) ==
    [key |-> key, value_template |-> value_template]

\* Some(1.0) in tenths
SomeTemp(t) == [some |-> TRUE, v |-> t]

PROVIDERS == <<
    [name |-> "openrouter", keywords |-> <<"openrouter">>,
     env_key |-> "OPENROUTER_API_KEY", litellm_prefix |-> "openrouter",
     skip_prefixes |-> <<>>, is_gateway |-> TRUE, is_local |-> FALSE,
     detect_by_key_prefix |-> "sk-or-", detect_by_base_keyword |-> "openrouter",
     default_api_base |-> "https://openrouter.ai/api/v1",
     strip_model_prefix |-> FALSE, env_extras |-> <<>>, model_overrides |-> <<>>],
    [name |-> "aihubmix", keywords |-> <<"aihubmix">>,
     env_key |-> "OPENAI_API_KEY", litellm_prefix |-> "openai",
     skip_prefixes |-> <<>>, is_gateway |-> TRUE, is_local |-> FALSE,
     detect_by_key_prefix |-> "", detect_by_base_keyword |-> "aihubmix",
     default_api_base |-> "https://aihubmix.com/v1",
     strip_model_prefix |-> TRUE, env_extras |-> <<>>, model_overrides |-> <<>>],
    [name |-> "anthropic", keywords |-> <<"anthropic", "claude">>,
     env_key |-> "ANTHROPIC_API_KEY", litellm_prefix |-> "",
     skip_prefixes |-> <<>>, is_gateway |-> FALSE, is_local |-> FALSE,
     detect_by_key_prefix |-> "", detect_by_base_keyword |-> "",
     default_api_base |-> "",
     strip_model_prefix |-> FALSE, env_extras |-> <<>>, model_overrides |-> <<>>],
    [name |-> "openai", keywords |-> <<"openai", "gpt">>,
     env_key |-> "OPENAI_API_KEY", litellm_prefix |-> "",
     skip_prefixes |-> <<>>, is_gateway |-> FALSE, is_local |-> FALSE,
     detect_by_key_prefix |-> "", detect_by_base_keyword |-> "",
     default_api_base |-> "",
     strip_model_prefix |-> FALSE, env_extras |-> <<>>, model_overrides |-> <<>>],
    [name |-> "deepseek", keywords |-> <<"deepseek">>,
     env_key |-> "DEEPSEEK_API_KEY", litellm_prefix |-> "deepseek",
     skip_prefixes |-> <<"deepseek/">>, is_gateway |-> FALSE, is_local |-> FALSE,
     detect_by_key_prefix |-> "", detect_by_base_keyword |-> "",
     default_api_base |-> "",
     strip_model_prefix |-> FALSE, env_extras |-> <<>>, model_overrides |-> <<>>],
    [name |-> "gemini", keywords |-> <<"gemini">>,
     env_key |-> "GEMINI_API_KEY", litellm_prefix |-> "gemini",
     skip_prefixes |-> <<"gemini/">>, is_gateway |-> FALSE, is_local |-> FALSE,
     detect_by_key_prefix |-> "", detect_by_base_keyword |-> "",
     default_api_base |-> "",
     strip_model_prefix |-> FALSE, env_extras |-> <<>>, model_overrides |-> <<>>],
    [name |-> "zhipu", keywords |-> <<"zhipu", "glm", "zai">>,
     env_key |-> "ZAI_API_KEY", litellm_prefix |-> "zai",
     skip_prefixes |-> <<"zhipu/", "zai/", "openrouter/", "hosted_vllm/">>,
     is_gateway |-> FALSE, is_local |-> FALSE,
     detect_by_key_prefix |-> "", detect_by_base_keyword |-> "",
     default_api_base |-> "",
     strip_model_prefix |-> FALSE,
     env_extras |-> <<EnvExtra("ZHIPUAI_API_KEY", "{api_key}")>>,
     model_overrides |-> <<>>],
    [name |-> "dashscope", keywords |-> <<"qwen", "dashscope">>,
     env_key |-> "DASHSCOPE_API_KEY", litellm_prefix |-> "dashscope",
     skip_prefixes |-> <<"dashscope/", "openrouter/">>,
     is_gateway |-> FALSE, is_local |-> FALSE,
     detect_by_key_prefix |-> "", detect_by_base_keyword |-> "",
     default_api_base |-> "",
     strip_model_prefix |-> FALSE, env_extras |-> <<>>, model_overrides |-> <<>>],
    [name |-> "moonshot", keywords |-> <<"moonshot", "kimi">>,
     env_key |-> "MOONSHOT_API_KEY", litellm_prefix |-> "moonshot",
     skip_prefixes |-> <<"moonshot/", "openrouter/">>,
     is_gateway |-> FALSE, is_local |-> FALSE,
     detect_by_key_prefix |-> "", detect_by_base_keyword |-> "",
     default_api_base |-> "https://api.moonshot.ai/v1",
     strip_model_prefix |-> FALSE,
     env_extras |-> <<EnvExtra("MOONSHOT_API_BASE", "{api_base}")>>,
     model_overrides |-> <<ModelOverride("kimi-k2.5", SomeTemp(10))>>],
    [name |-> "minimax", keywords |-> <<"minimax">>,
     env_key |-> "MINIMAX_API_KEY", litellm_prefix |-> "minimax",
     skip_prefixes |-> <<"minimax/", "openrouter/">>,
     is_gateway |-> FALSE, is_local |-> FALSE,
     detect_by_key_prefix |-> "", detect_by_base_keyword |-> "",
     default_api_base |-> "https://api.minimax.io/v1",
     strip_model_prefix |-> FALSE, env_extras |-> <<>>, model_overrides |-> <<>>],
    [name |-> "vllm", keywords |-> <<"vllm">>,
     env_key |-> "HOSTED_VLLM_API_KEY", litellm_prefix |-> "hosted_vllm",
     skip_prefixes |-> <<>>, is_gateway |-> FALSE, is_local |-> TRUE,
     detect_by_key_prefix |-> "", detect_by_base_keyword |-> "",
     default_api_base |-> "",
     strip_model_prefix |-> FALSE, env_extras |-> <<>>, model_overrides |-> <<>>],
    [name |-> "groq", keywords |-> <<"groq">>,
     env_key |-> "GROQ_API_KEY", litellm_prefix |-> "groq",
     skip_prefixes |-> <<"groq/">>, is_gateway |-> FALSE, is_local |-> FALSE,
     detect_by_key_prefix |-> "", detect_by_base_keyword |-> "",
     default_api_base |-> "",
     strip_model_prefix |-> FALSE, env_extras |-> <<>>, model_overrides |-> <<>>]
>>

\* the indices of the catalog; NoSpec is Option::None of a descriptor reference
SpecIds == 1..Len(PROVIDERS)

NoSpec == 0

\* Iterator::find over PROVIDERS: the first index whose descriptor satisfies P
FindFirst(P(_)) ==
    IF \E i \in SpecIds : P(i)
    THEN CHOOSE i \in SpecIds : P(i) /\ \A j \in 1..(i - 1) : ~P(j)
    ELSE NoSpec

find_by_name(name) ==
    LET P(i) == PROVIDERS[i].name = name
    IN  FindFirst(P)

find_by_model(model) ==
    LET model_lower == to_lowercase(model)
        P(i) == /\ ~PROVIDERS[i].is_gateway
                /\ ~PROVIDERS[i].is_local
                /\ \E k \in 1..Len(PROVIDERS[i].keywords) :
                       Contains(model_lower, PROVIDERS[i].keywords[k])
    IN  FindFirst(P)

\* find_gateway with the explicit name honoured whatever the descriptor's kind
find_gateway_AnyKind(provider_name, api_key, api_base) ==
    IF provider_name.some /\ find_by_name(provider_name.v) # NoSpec
    THEN find_by_name(provider_name.v)
    ELSE LET P(i) ==
                 \/ /\ PROVIDERS[i].detect_by_key_prefix # ""
                    /\ api_key.some
                    /\ StartsWith(api_key.v, PROVIDERS[i].detect_by_key_prefix)
                 \/ /\ PROVIDERS[i].detect_by_base_keyword # ""
                    /\ api_base.some
                    /\ Contains(api_base.v, PROVIDERS[i].detect_by_base_keyword)
         IN  FindFirst(P)

\* find_gateway with auto-detection tried before the explicit name
find_gateway_SignalsFirst(provider_name, api_key, api_base) ==
    LET P(i) ==
            \/ /\ PROVIDERS[i].detect_by_key_prefix # ""
               /\ api_key.some
               /\ StartsWith(api_key.v, PROVIDERS[i].detect_by_key_prefix)
            \/ /\ PROVIDERS[i].detect_by_base_keyword # ""
               /\ api_base.some
               /\ Contains(api_base.v, PROVIDERS[i].detect_by_base_keyword)
    IN  IF FindFirst(P) # NoSpec THEN FindFirst(P)
        ELSE IF /\ provider_name.some
                /\ find_by_name(provider_name.v) # NoSpec
                /\ \/ PROVIDERS[find_by_name(provider_name.v)].is_gateway
                   \/ PROVIDERS[find_by_name(provider_name.v)].is_local
             THEN find_by_name(provider_name.v)
             ELSE NoSpec

\* find_gateway with the base-URL signal tested before the key-prefix signal
\* over the whole catalog
find_gateway_BaseFirst(provider_name, api_key, api_base) ==
    IF /\ provider_name.some
       /\ find_by_name(provider_name.v) # NoSpec
       /\ \/ PROVIDERS[find_by_name(provider_name.v)].is_gateway
          \/ PROVIDERS[find_by_name(provider_name.v)].is_local
    THEN find_by_name(provider_name.v)
    ELSE LET B(i) == /\ PROVIDERS[i].detect_by_base_keyword # ""
                     /\ api_base.some
                     /\ Contains(api_base.v, PROVIDERS[i].detect_by_base_keyword)
             K(i) == /\ PROVIDERS[i].detect_by_key_prefix # ""
                     /\ api_key.some
                     /\ StartsWith(api_key.v, PROVIDERS[i].detect_by_key_prefix)
         IN  IF FindFirst(B) # NoSpec THEN FindFirst(B) ELSE FindFirst(K)

find_gateway(provider_name, api_key, api_base) ==
    IF /\ provider_name.some
       /\ find_by_name(provider_name.v) # NoSpec
       /\ \/ PROVIDERS[find_by_name(provider_name.v)].is_gateway
          \/ PROVIDERS[find_by_name(provider_name.v)].is_local
    THEN find_by_name(provider_name.v)
    ELSE LET key_matches(i) ==
                 /\ PROVIDERS[i].detect_by_key_prefix # ""
                 /\ api_key.some
                 /\ StartsWith(api_key.v, PROVIDERS[i].detect_by_key_prefix)
             base_matches(i) ==
                 /\ PROVIDERS[i].detect_by_base_keyword # ""
                 /\ api_base.some
                 /\ Contains(api_base.v, PROVIDERS[i].detect_by_base_keyword)
             P(i) == key_matches(i) \/ base_matches(i)
         IN  FindFirst(P)

----------------------------------------------------------------------------
(* LiteLLMProvider: a provider p is the record                             *)
(* [built, api_key, api_base, default_model, extra_headers, gateway]       *)

\* set_env_var that writes whether or not the variable is already set
set_env_var_AlwaysOverwrite(e, key, value, overwrite) ==
    IF key = "" \/ value = "" THEN e
    ELSE [e EXCEPT ![key] = Some(value)]

\* set_env_var that appends to the value a variable already has
set_env_var_Appends(e, key, value, overwrite) ==
    IF key = "" \/ value = "" THEN e
    ELSE IF ~overwrite /\ e[key].some THEN e
    ELSE [e EXCEPT ![key] = Some((IF e[key].some THEN e[key].v ELSE "") \o value)]

\* set_env_var without the early return on an empty key or value
set_env_var_WritesEmpty(e, key, value, overwrite) ==
    IF ~overwrite /\ e[key].some THEN e
    ELSE [e EXCEPT ![key] = Some(value)]

\* std::env::var_os(key).is_some() and std::env::set_var(key, value) on the
\* environment e; the result is the environment after the call
set_env_var(e, key, value, overwrite) ==
    IF key = "" \/ value = "" THEN e
    ELSE IF ~overwrite /\ e[key].some THEN e
    ELSE [e EXCEPT ![key] = Some(value)]

\* the loop over spec.env_extras publishing the template unsubstituted
RECURSIVE publish_extras_RawTemplate(_, _, _, _, _)
publish_extras_RawTemplate(e, extras, k, api_key, effective_base) ==
    IF k > Len(extras) THEN e
    ELSE publish_extras_RawTemplate(
             set_env_var(e, extras[k].key, extras[k].value_template, FALSE),
             extras, k + 1, api_key, effective_base)

\* the loop over spec.env_extras, from entry k on
RECURSIVE publish_extras(_, _, _, _, _)
publish_extras(e, extras, k, api_key, effective_base) ==
    IF k > Len(extras) THEN e
    ELSE LET value == replace(replace(extras[k].value_template, "{api_key}", api_key),
                              "{api_base}", effective_base)
         IN  publish_extras(set_env_var(e, extras[k].key, value, FALSE),
                            extras, k + 1, api_key, effective_base)

setup_env(p, model, e) ==
    LET spec == IF p.gateway # NoSpec THEN p.gateway ELSE find_by_model(model)
    IN  IF spec = NoSpec THEN e
        ELSE LET e1 == IF PROVIDERS[spec].env_key # ""
                       THEN set_env_var(e, PROVIDERS[spec].env_key, p.api_key,
                                        p.gateway # NoSpec)
                       ELSE e
                 effective_base == IF p.api_base.some THEN p.api_base.v
                                   ELSE PROVIDERS[spec].default_api_base
             IN  publish_extras(e1, PROVIDERS[spec].env_extras, 1, p.api_key,
                                effective_base)

\* the Self value LiteLLMProvider::new builds
new(api_key, api_base, default_model, extra_headers, provider_name) ==
    [built |-> TRUE,
     api_key |-> api_key,
     api_base |-> api_base,
     default_model |-> default_model,
     extra_headers |-> extra_headers,
     gateway |-> find_gateway(provider_name,
                              IF api_key = "" THEN None ELSE Some(api_key),
                              api_base)]

\* the environment after LiteLLMProvider::new has built p in environment e
new_env(p, e) ==
    IF p.api_key # "" THEN setup_env(p, p.default_model, e) ELSE e

\* resolve_model that prefixes without looking at skip_prefixes
resolve_model_NoSkip(p, model) ==
    IF p.gateway # NoSpec
    THEN LET gateway == PROVIDERS[p.gateway]
             normalized == IF gateway.strip_model_prefix THEN rsplit_next(model)
                           ELSE model
         IN  IF \/ gateway.litellm_prefix = ""
                \/ StartsWith(normalized, gateway.litellm_prefix \o "/")
             THEN normalized
             ELSE gateway.litellm_prefix \o "/" \o normalized
    ELSE LET spec == find_by_model(model)
         IN  IF spec # NoSpec /\ PROVIDERS[spec].litellm_prefix # ""
             THEN PROVIDERS[spec].litellm_prefix \o "/" \o model
             ELSE model

\* resolve_model that never strips the vendor prefix under a gateway
resolve_model_NoStrip(p, model) ==
    IF p.gateway # NoSpec
    THEN LET gateway == PROVIDERS[p.gateway]
         IN  IF \/ gateway.litellm_prefix = ""
                \/ StartsWith(model, gateway.litellm_prefix \o "/")
             THEN model
             ELSE gateway.litellm_prefix \o "/" \o model
    ELSE LET spec == find_by_model(model)
         IN  IF /\ spec # NoSpec
                /\ PROVIDERS[spec].litellm_prefix # ""
                /\ ~\E k \in 1..Len(PROVIDERS[spec].skip_prefixes) :
                       StartsWith(model, PROVIDERS[spec].skip_prefixes[k])
             THEN PROVIDERS[spec].litellm_prefix \o "/" \o model
             ELSE model

\* resolve_model that tests skip_prefixes against the lower-cased model
resolve_model_SkipLower(p, model) ==
    IF p.gateway # NoSpec
    THEN LET gateway == PROVIDERS[p.gateway]
             normalized == IF gateway.strip_model_prefix THEN rsplit_next(model)
                           ELSE model
         IN  IF \/ gateway.litellm_prefix = ""
                \/ StartsWith(normalized, gateway.litellm_prefix \o "/")
             THEN normalized
             ELSE gateway.litellm_prefix \o "/" \o normalized
    ELSE LET spec == find_by_model(model)
         IN  IF /\ spec # NoSpec
                /\ PROVIDERS[spec].litellm_prefix # ""
                /\ ~\E k \in 1..Len(PROVIDERS[spec].skip_prefixes) :
                       StartsWith(to_lowercase(model), PROVIDERS[spec].skip_prefixes[k])
             THEN PROVIDERS[spec].litellm_prefix \o "/" \o model
             ELSE model

resolve_model(p, model) ==
    IF p.gateway # NoSpec
    THEN LET gateway == PROVIDERS[p.gateway]
             normalized == IF gateway.strip_model_prefix THEN rsplit_next(model)
                           ELSE model
         IN  IF \/ gateway.litellm_prefix = ""
                \/ StartsWith(normalized, gateway.litellm_prefix \o "/")
             THEN normalized
             ELSE gateway.litellm_prefix \o "/" \o normalized
    ELSE LET spec == find_by_model(model)
         IN  IF /\ spec # NoSpec
                /\ PROVIDERS[spec].litellm_prefix # ""
                /\ ~\E k \in 1..Len(PROVIDERS[spec].skip_prefixes) :
                       StartsWith(model, PROVIDERS[spec].skip_prefixes[k])
             THEN PROVIDERS[spec].litellm_prefix \o "/" \o model
             ELSE model

\* the rule loop of apply_model_overrides, from rule k on: the temperature
\* after the loop
RECURSIVE override_from(_, _, _, _)
override_from(rules, k, model_lower, temperature) ==
    IF k > Len(rules) THEN temperature
    ELSE IF Contains(model_lower, rules[k].pattern) /\ rules[k].temperature.some
         THEN rules[k].temperature.v
         ELSE override_from(rules, k + 1, model_lower, temperature)

\* apply_model_overrides matching the patterns against the model as written
apply_model_overrides_CaseSensitive(model, temperature) ==
    LET spec == find_by_model(model)
    IN  IF spec = NoSpec THEN temperature
        ELSE override_from(PROVIDERS[spec].model_overrides, 1, model, temperature)

\* apply_model_overrides applying the descriptor's first rule unconditionally
apply_model_overrides_NoPattern(model, temperature) ==
    LET spec == find_by_model(model)
    IN  IF spec = NoSpec \/ PROVIDERS[spec].model_overrides = <<>> THEN temperature
        ELSE PROVIDERS[spec].model_overrides[1].temperature.v

\* effective_api_base that prefers the gateway's default to the explicit
\* base URL
effective_api_base_GatewayFirst(p, model) ==
    IF p.gateway # NoSpec /\ PROVIDERS[p.gateway].default_api_base # ""
    THEN Some(PROVIDERS[p.gateway].default_api_base)
    ELSE IF p.api_base.some THEN p.api_base
    ELSE IF /\ find_by_model(model) # NoSpec
            /\ PROVIDERS[find_by_model(model)].default_api_base # ""
         THEN Some(PROVIDERS[find_by_model(model)].default_api_base)
    ELSE None

\* *temperature after apply_model_overrides(model, temperature)
apply_model_overrides(model, temperature) ==
    LET model_lower == to_lowercase(model)
        spec == find_by_model(model)
    IN  IF spec = NoSpec THEN temperature
        ELSE override_from(PROVIDERS[spec].model_overrides, 1, model_lower, temperature)

effective_api_base(p, model) ==
    IF p.api_base.some THEN Some(p.api_base.v)
    ELSE IF p.gateway # NoSpec /\ PROVIDERS[p.gateway].default_api_base # ""
         THEN Some(PROVIDERS[p.gateway].default_api_base)
    ELSE IF /\ find_by_model(model) # NoSpec
            /\ PROVIDERS[find_by_model(model)].default_api_base # ""
         THEN Some(PROVIDERS[find_by_model(model)].default_api_base)
    ELSE None

----------------------------------------------------------------------------
(* Values of the variables an operation has not touched yet *)

\* every variable the catalog's env_key and env_extras name
EnvKeys ==
    {PROVIDERS[i].env_key : i \in SpecIds} \cup
    UNION {{PROVIDERS[i].env_extras[k].key : k \in DOMAIN PROVIDERS[i].env_extras} :
              i \in SpecIds}

EmptyEnv == [k \in EnvKeys |-> None]

NoProvider ==
    [built |-> FALSE, api_key |-> "", api_base |-> None, default_model |-> "",
     extra_headers |-> {}, gateway |-> NoSpec]

NoCtor ==
    [n |-> 0, api_key |-> "", api_base |-> None, default_model |-> "",
     provider_name |-> None]

NoSel == [name |-> None, key |-> None, base |-> None, done |-> FALSE, result |-> NoSpec]

NoRes == [op |-> "none"]

NoChat == [pc |-> "idle"]

NoGuard == [pc |-> "none"]

\* the most callers that share the provider
NumCallers == 2

Callers == 1..NumCallers

NoChats == [c \in Callers |-> NoChat]

NoCtors == [mode |-> "none"]

----------------------------------------------------------------------------
(* Gateway selection: find_gateway applied to drawn arguments *)

ProviderNames ==
    {None, Some("unknown"), Some(""), Some("OpenRouter")} \cup
    {Some(PROVIDERS[i].name) : i \in SpecIds}

ApiKeys ==
    {None, Some(""), Some("sk-or-abcdef"), Some("sk-or-"), Some("sk-o"),
     Some("sk-abc"), Some("xsk-or-1")}

ApiBases ==
    {None, Some(""), Some("https://openrouter.ai/api/v1"),
     Some("https://aihubmix.com/v1"), Some("https://aihubmix.com/openrouter"),
     Some("https://AIHUBMIX.com/v1"), Some("http://localhost:8000/v1")}

InitGateway ==
    /\ sel \in {[name |-> n, key |-> k, base |-> b, done |-> FALSE, result |-> NoSpec] :
                   n \in ProviderNames, k \in ApiKeys, b \in ApiBases}
    /\ env = EmptyEnv
    /\ env_before = EmptyEnv
    /\ provider = NoProvider
    /\ ctor = NoCtor
    /\ res = NoRes
    /\ chat = NoChat
    /\ guard = NoGuard
    /\ chats = NoChats
    /\ ctors = NoCtors

FindGateway ==
    /\ ~sel.done
    /\ sel' = [sel EXCEPT !.done = TRUE,
                          !.result = find_gateway(sel.name, sel.key, sel.base)]
    /\ UNCHANGED <<env, env_before, provider, ctor, res, chat, guard, chats, ctors>>

NextGateway == FindGateway

SpecGateway == InitGateway /\ [][NextGateway]_vars

\* the explicit name is the name of a gateway or local descriptor of the catalog
NamesGatewayOrLocal(name) ==
    /\ name.some
    /\ \E i \in SpecIds : /\ PROVIDERS[i].name = name.v
                          /\ (PROVIDERS[i].is_gateway \/ PROVIDERS[i].is_local)

\* descriptor i is detected by the key prefix or by the base-URL keyword
Detects(i, key, base) ==
    \/ /\ PROVIDERS[i].detect_by_key_prefix # ""
       /\ key.some
       /\ \E rest \in {SubSeq(key.v, n + 1, Len(key.v)) : n \in 0..Len(key.v)} :
              key.v = PROVIDERS[i].detect_by_key_prefix \o rest
    \/ /\ PROVIDERS[i].detect_by_base_keyword # ""
       /\ base.some
       /\ \E a \in 0..Len(base.v), b \in 0..Len(base.v) :
              /\ a <= b
              /\ SubSeq(base.v, a + 1, b) = PROVIDERS[i].detect_by_base_keyword

\* C1: an explicit provider name that names a gateway or local descriptor
\* selects that descriptor for every api_key and api_base, also when a key
\* prefix or base keyword would detect another descriptor.
C1_ExplicitGatewayNameWins ==
    (sel.done /\ NamesGatewayOrLocal(sel.name)) =>
        /\ sel.result # NoSpec
        /\ PROVIDERS[sel.result].name = sel.name.v

\* C1 witness: the name picked vllm although the key and the base detect openrouter
C1_Witness ==
    /\ sel.done
    /\ sel.name = Some("vllm")
    /\ sel.key = Some("sk-or-abcdef")
    /\ sel.base = Some("https://aihubmix.com/openrouter")
    /\ PROVIDERS[sel.result].name = "vllm"

\* C2: an unknown name, or the name of a vendor descriptor, is never used:
\* the result is the one auto-detection gives without a name, and it is
\* not the named vendor descriptor.
C2_VendorNameIgnored ==
    (sel.done /\ sel.name.some /\ ~NamesGatewayOrLocal(sel.name)) =>
        /\ sel.result = find_gateway(None, sel.key, sel.base)
        /\ sel.result # NoSpec => PROVIDERS[sel.result].name # sel.name.v

\* C2 witness: the vendor name "moonshot" was given and auto-detection chose
\* aihubmix from the base URL
C2_Witness ==
    /\ sel.done
    /\ sel.name = Some("moonshot")
    /\ sel.base = Some("https://aihubmix.com/v1")
    /\ sel.result # NoSpec
    /\ PROVIDERS[sel.result].name = "aihubmix"

\* C3: without a usable name the result is the first descriptor in catalog
\* order detected by its non-empty key prefix or base keyword, none when no
\* descriptor is detected, never a descriptor with both detection fields
\* empty; a key starting "sk-or-" gives openrouter, also with an aihubmix base.
C3_AutoDetectFirstMatch ==
    (sel.done /\ ~NamesGatewayOrLocal(sel.name)) =>
        /\ sel.result # NoSpec =>
              /\ Detects(sel.result, sel.key, sel.base)
              /\ \A j \in SpecIds : j < sel.result => ~Detects(j, sel.key, sel.base)
              /\ \/ PROVIDERS[sel.result].detect_by_key_prefix # ""
                 \/ PROVIDERS[sel.result].detect_by_base_keyword # ""
        /\ sel.result = NoSpec =>
              \A j \in SpecIds : ~Detects(j, sel.key, sel.base)
        /\ (sel.key.some /\ Len(sel.key.v) >= 6 /\ SubSeq(sel.key.v, 1, 6) = "sk-or-") =>
              (sel.result # NoSpec /\ PROVIDERS[sel.result].name = "openrouter")

\* C3 witness: key "sk-or-abcdef" with an aihubmix base URL gave openrouter
C3_Witness ==
    /\ sel.done
    /\ sel.name = None
    /\ sel.key = Some("sk-or-abcdef")
    /\ sel.base = Some("https://aihubmix.com/v1")
    /\ sel.result # NoSpec
    /\ PROVIDERS[sel.result].name = "openrouter"

----------------------------------------------------------------------------
(* Provider construction, and resolve_model / apply_model_overrides applied *)
(* to drawn model identifiers on the constructed provider                   *)

\* the most '/'-separated segments of a drawn model identifier
MaxSegments == 2

ModelNames ==
    {"qwen-plus", "kimi-k2.5", "KIMI-K2.5", "claude-3-7-sonnet", "gpt-4o",
     "glm-4", "llama3", "qwen-gpt", "Qwen-Plus", "deepseek-chat", "gemini-pro",
     "minimax-m1", ""}

ModelPrefixes ==
    {"openai", "anthropic", "dashscope", "Dashscope", "moonshot", "zai",
     "openrouter", "hosted_vllm"}

RECURSIVE ModelPaths(_)
ModelPaths(n) ==
    IF n <= 1 THEN ModelNames
    ELSE ModelPaths(n - 1) \cup
         {pfx \o "/" \o m : pfx \in ModelPrefixes, m \in ModelPaths(n - 1)}

ModelIds == ModelPaths(MaxSegments)

\* temperatures in tenths
Temperatures == {2, 10, 15}

\* LiteLLMProvider::new with arguments drawn from the given sets, as the
\* construction number ctor.n + 1 of at most max
New(keys, bases, models, names, max) ==
    /\ ctor.n < max
    /\ \E api_key \in keys, api_base \in bases, default_model \in models,
          provider_name \in names :
          LET p == new(api_key, api_base, default_model, {}, provider_name)
          IN  /\ provider' = p
              /\ env' = new_env(p, env)
              /\ env_before' = env
              /\ ctor' = [n |-> ctor.n + 1, api_key |-> api_key,
                          api_base |-> api_base, default_model |-> default_model,
                          provider_name |-> provider_name]
    /\ UNCHANGED <<sel, res, chat, guard, chats, ctors>>

InitResolve ==
    /\ env = EmptyEnv
    /\ env_before = EmptyEnv
    /\ provider = NoProvider
    /\ ctor = NoCtor
    /\ sel = NoSel
    /\ res = NoRes
    /\ chat = NoChat
    /\ guard = NoGuard
    /\ chats = NoChats
    /\ ctors = NoCtors

\* the constructions of the unit tests: no credential, a gateway by name or
\* by base URL, or none
NewForResolve ==
    New({""}, {None, Some("https://aihubmix.com/v1")}, {"qwen-plus"},
        {None, Some("openrouter"), Some("aihubmix"), Some("vllm"), Some("moonshot")}, 1)

ResolveModel ==
    /\ provider.built
    /\ res = NoRes
    /\ \E model \in ModelIds :
          res' = [op |-> "resolve_model", model |-> model,
                  out |-> resolve_model(provider, model),
                  again |-> resolve_model(provider, resolve_model(provider, model))]
    /\ UNCHANGED <<env, env_before, provider, ctor, sel, chat, guard, chats, ctors>>

ApplyModelOverrides ==
    /\ provider.built
    /\ res = NoRes
    /\ \E model \in ModelIds, temperature \in Temperatures :
          res' = [op |-> "apply_model_overrides", model |-> model,
                  temperature |-> temperature,
                  out |-> apply_model_overrides(model, temperature)]
    /\ UNCHANGED <<env, env_before, provider, ctor, sel, chat, guard, chats, ctors>>

NextResolve == NewForResolve \/ ResolveModel \/ ApplyModelOverrides

SpecResolve == InitResolve /\ [][NextResolve]_vars

\* vendor descriptor i (neither gateway nor local) has a keyword in model m,
\* letter case ignored
KeywordVendor(i, m) ==
    /\ ~PROVIDERS[i].is_gateway
    /\ ~PROVIDERS[i].is_local
    /\ \E k \in DOMAIN PROVIDERS[i].keywords :
           Contains(to_lowercase(m), PROVIDERS[i].keywords[k])

\* the first vendor descriptor in catalog order with a keyword in m, or NoSpec
FirstVendor(m) ==
    LET V == {i \in SpecIds : KeywordVendor(i, m)}
    IN  IF V = {} THEN NoSpec ELSE CHOOSE i \in V : \A j \in V : i <= j

\* t is the part of m after its last '/', or m when m has no '/'
IsAfterLastSlash(t, m) ==
    /\ ~Contains(t, "/")
    /\ \/ t = m
       \/ \E h \in {SubSeq(m, 1, n) : n \in 0..Len(m)} : m = h \o "/" \o t

\* C4: resolve_model is idempotent for every model identifier and every
\* gateway choice: resolving the resolved identifier changes nothing.
C4_ResolveIdempotent ==
    res.op = "resolve_model" => res.again = res.out

\* C4 witness: under aihubmix the identifier was rewritten, and resolving the
\* rewritten identifier gave it back
C4_Witness ==
    /\ res.op = "resolve_model"
    /\ provider.gateway # NoSpec
    /\ PROVIDERS[provider.gateway].name = "aihubmix"
    /\ res.model = "anthropic/claude-3-7-sonnet"
    /\ res.out # res.model
    /\ res.again = res.out

C6_VendorResolution ==
    (res.op = "resolve_model" /\ provider.gateway = NoSpec) =>
        LET d == FirstVendor(res.model)
            prefixed ==
                /\ d # NoSpec
                /\ PROVIDERS[d].litellm_prefix # ""
                /\ \A k \in DOMAIN PROVIDERS[d].skip_prefixes :
                       ~StartsWith(res.model, PROVIDERS[d].skip_prefixes[k])
        IN  /\ prefixed => res.out = PROVIDERS[d].litellm_prefix \o "/" \o res.model
            /\ ~prefixed => res.out = res.model
            /\ res.model = "qwen-plus" => res.out = "dashscope/qwen-plus"
            /\ res.model = "dashscope/qwen-plus" => res.out = "dashscope/qwen-plus"

\* C6 witness: without a gateway "openrouter/qwen-plus", which holds the
\* keyword of the gateway openrouter, was resolved by the vendor dashscope
\* and left unchanged by its skip prefix
C6_Witness ==
    /\ res.op = "resolve_model"
    /\ provider.built
    /\ provider.gateway = NoSpec
    /\ res.model = "openrouter/qwen-plus"
    /\ FirstVendor(res.model) # NoSpec
    /\ PROVIDERS[FirstVendor(res.model)].name = "dashscope"
    /\ res.out = res.model

\* rule k of descriptor i matches identifier m, letter case ignored
RuleMatches(i, k, m) ==
    /\ k \in DOMAIN PROVIDERS[i].model_overrides
    /\ Contains(to_lowercase(m), PROVIDERS[i].model_overrides[k].pattern)

\* C7: apply_model_overrides changes the temperature only if a rule's pattern
\* is contained in the identifier; when the identifier's vendor descriptor
\* has matching rules the temperature becomes the value of the first of them
\* in declared order whatever was requested, and it is left as supplied when
\* no rule matches; "moonshot/kimi-k2.5" with 0.2 gives 1.0.
C7_OverrideFirstMatch ==
    res.op = "apply_model_overrides" =>
        LET d == FirstVendor(res.model)
            M == IF d = NoSpec THEN {}
                 ELSE {k \in DOMAIN PROVIDERS[d].model_overrides :
                          RuleMatches(d, k, res.model)}
        IN  /\ res.out # res.temperature =>
                  \E i \in SpecIds : \E k \in DOMAIN PROVIDERS[i].model_overrides :
                      /\ RuleMatches(i, k, res.model)
                      /\ res.out = PROVIDERS[i].model_overrides[k].temperature.v
            /\ M # {} =>
                  res.out = PROVIDERS[d].model_overrides[
                                CHOOSE k \in M : \A j \in M : k <= j].temperature.v
            /\ M = {} => res.out = res.temperature
            /\ (res.model = "moonshot/kimi-k2.5" /\ res.temperature = 2) => res.out = 10

\* C7 witness: "moonshot/KIMI-K2.5" requested with 0.2 came out with 1.0
C7_Witness ==
    /\ res.op = "apply_model_overrides"
    /\ res.model = "moonshot/KIMI-K2.5"
    /\ res.temperature = 2
    /\ res.out = 10

----------------------------------------------------------------------------
(* The environment side effect: a serialized sequence of constructions     *)
(* starting from an ambient environment                                    *)

\* the most constructions in one sequence
MaxConstructions == 2

\* the environment with every catalog variable set to v
AllSet(v) == [k \in EnvKeys |-> Some(v)]

\* the environment with the one variable key set to v
OnlySet(key, v) == [EmptyEnv EXCEPT ![key] = Some(v)]

AmbientEnvs ==
    {EmptyEnv, AllSet("ambient"), OnlySet("OPENAI_API_KEY", "sk-ambient"),
     OnlySet("ZAI_API_KEY", "sk-ambient"), OnlySet("ZHIPUAI_API_KEY", ""),
     OnlySet("MOONSHOT_API_BASE", "https://ambient.example/v1")}

CtorKeys == {"", "sk-1", "sk-2", "{api_base}"}

CtorBases == {None, Some(""), Some("http://localhost:8000/v1")}

CtorModels == {"glm-4", "kimi-k2.5", "gpt-4o", "llama3"}

CtorNames == {None, Some("aihubmix")}

InitEnv ==
    /\ env \in AmbientEnvs
    /\ env_before = env
    /\ provider = NoProvider
    /\ ctor = NoCtor
    /\ sel = NoSel
    /\ res = NoRes
    /\ chat = NoChat
    /\ guard = NoGuard
    /\ chats = NoChats
    /\ ctors = NoCtors

NewInSequence == New(CtorKeys, CtorBases, CtorModels, CtorNames, MaxConstructions)

\* LiteLLMProvider::new once more with the arguments of the latest
\* construction; res keeps the environment that construction had left
NewAgain ==
    /\ ctor.n > 0
    /\ ctor.n < MaxConstructions
    /\ LET p == new(ctor.api_key, ctor.api_base, ctor.default_model, {},
                    ctor.provider_name)
       IN  /\ provider' = p
           /\ env' = new_env(p, env)
           /\ env_before' = env
           /\ ctor' = [ctor EXCEPT !.n = @ + 1]
           /\ res' = [op |-> "new_again", n |-> ctor.n + 1, first |-> env]
    /\ UNCHANGED <<sel, chat, guard, chats, ctors>>

NextEnv == NewInSequence \/ NewAgain

SpecEnv == InitEnv /\ [][NextEnv]_vars

\* the descriptor the latest construction provisions for: the selected
\* gateway, else the vendor of the default model
Provisioned ==
    IF provider.gateway # NoSpec THEN provider.gateway
    ELSE FirstVendor(provider.default_model)

\* the effective base URL of the latest construction for descriptor d
EffectiveBase(d) ==
    IF ctor.api_base.some THEN ctor.api_base.v ELSE PROVIDERS[d].default_api_base

\* template t with each placeholder substituted in one pass
RECURSIVE Substituted(_, _, _)
Substituted(t, api_key, api_base) ==
    IF t = "" THEN ""
    ELSE IF StartsWith(t, "{api_key}")
         THEN api_key \o Substituted(SubSeq(t, 10, Len(t)), api_key, api_base)
    ELSE IF StartsWith(t, "{api_base}")
         THEN api_base \o Substituted(SubSeq(t, 11, Len(t)), api_key, api_base)
    ELSE SubSeq(t, 1, 1) \o Substituted(SubSeq(t, 2, Len(t)), api_key, api_base)

\* C9 as stated: after every construction, a vendor's credential variable
\* keeps a value it already had and is written only if it was unset, and a
\* selected gateway's credential variable holds the provider's credential
\* whatever it held before (an unset variable counts as holding the empty
\* credential).
C9_AsStated ==
    (ctor.n > 0 /\ Provisioned # NoSpec) =>
        LET key == PROVIDERS[Provisioned].env_key
        IN  IF provider.gateway = NoSpec
            THEN /\ env_before[key].some => env[key] = env_before[key]
                 /\ env[key] # env_before[key] => env[key] = Some(ctor.api_key)
            ELSE \/ env[key] = Some(ctor.api_key)
                 \/ ctor.api_key = "" /\ ~env[key].some

\* C9 amended: a vendor's credential variable keeps a value it already had,
\* and when it was unset it receives the credential if that is non-empty; a
\* selected gateway's credential variable holds the credential after the
\* construction whatever it held before, provided the credential is
\* non-empty; a construction with an empty credential leaves the variable
\* as it was.
C9_CredentialRule ==
    (ctor.n > 0 /\ Provisioned # NoSpec) =>
        LET key == PROVIDERS[Provisioned].env_key
        IN  /\ (provider.gateway = NoSpec /\ env_before[key].some)
                   => env[key] = env_before[key]
            /\ (provider.gateway = NoSpec /\ ~env_before[key].some)
                   => env[key] = IF ctor.api_key = "" THEN None ELSE Some(ctor.api_key)
            /\ (provider.gateway # NoSpec /\ ctor.api_key # "")
                   => env[key] = Some(ctor.api_key)
            /\ ctor.api_key = "" => env[key] = env_before[key]

\* C9 witness: a second construction selected the gateway aihubmix and
\* replaced the credential the first one had left in OPENAI_API_KEY
C9_Witness ==
    /\ ctor.n = 2
    /\ provider.gateway # NoSpec
    /\ PROVIDERS[provider.gateway].name = "aihubmix"
    /\ env_before["OPENAI_API_KEY"] = Some("sk-1")
    /\ ctor.api_key = "sk-2"
    /\ env["OPENAI_API_KEY"] = Some("sk-2")

\* C9 second witness: a vendor construction found ZAI_API_KEY set and left it
C9_WitnessVendor ==
    /\ ctor.n > 0
    /\ provider.gateway = NoSpec
    /\ ctor.default_model = "glm-4"
    /\ ctor.api_key = "sk-1"
    /\ env_before["ZAI_API_KEY"] = Some("sk-ambient")
    /\ env["ZAI_API_KEY"] = Some("sk-ambient")

\* C10 as stated: at every construction whose descriptor resolves, each
\* auxiliary entry whose variable is unset and whose substituted value is
\* non-empty is published with {api_key} replaced by the credential and
\* {api_base} by the effective base URL, and a set auxiliary variable is
\* never overwritten.
C10_AsStated ==
    (ctor.n > 0 /\ Provisioned # NoSpec) =>
        \A k \in DOMAIN PROVIDERS[Provisioned].env_extras :
            LET extra == PROVIDERS[Provisioned].env_extras[k]
                value == Substituted(extra.value_template, ctor.api_key,
                                     EffectiveBase(Provisioned))
            IN  /\ env_before[extra.key].some => env[extra.key] = env_before[extra.key]
                /\ (~env_before[extra.key].some /\ value # "")
                       => env[extra.key] = Some(value)

\* C10 amended: at every construction with a non-empty credential whose
\* descriptor resolves, each auxiliary entry whose variable is unset is
\* published with the value obtained from its template by replacing
\* {api_key} by the credential and then, in the result, {api_base} by the
\* effective base URL (the explicit base URL if given, else the descriptor's
\* default), provided that value is non-empty, and is left unset when it is
\* empty; a set auxiliary variable is never overwritten; a construction with
\* an empty credential publishes no auxiliary entry.
C10_AuxiliaryEntries ==
    (ctor.n > 0 /\ Provisioned # NoSpec) =>
        \A k \in DOMAIN PROVIDERS[Provisioned].env_extras :
            LET extra == PROVIDERS[Provisioned].env_extras[k]
                value == replace(replace(extra.value_template, "{api_key}", ctor.api_key),
                                 "{api_base}", EffectiveBase(Provisioned))
            IN  /\ env_before[extra.key].some => env[extra.key] = env_before[extra.key]
                /\ (~env_before[extra.key].some /\ ctor.api_key # "")
                       => env[extra.key] = IF value = "" THEN None ELSE Some(value)
                /\ ctor.api_key = "" => env[extra.key] = env_before[extra.key]

\* C10 witness: a moonshot construction with an explicit base URL published
\* that URL, not the descriptor's default, in the unset MOONSHOT_API_BASE
C10_Witness ==
    /\ ctor.n > 0
    /\ provider.gateway = NoSpec
    /\ ctor.default_model = "kimi-k2.5"
    /\ ctor.api_key = "sk-1"
    /\ ctor.api_base = Some("http://localhost:8000/v1")
    /\ ~env_before["MOONSHOT_API_BASE"].some
    /\ env["MOONSHOT_API_BASE"] = Some("http://localhost:8000/v1")

\* C11: a construction that selects no gateway and whose default model
\* matches no vendor leaves every environment variable as it was; and at
\* any construction an entry whose value is empty changes nothing for that
\* entry: an empty credential leaves the credential variable as it was, and
\* an auxiliary entry whose substituted value is empty leaves its variable
\* as it was (no catalog entry has an empty key).
C11_ProvisionerNoOp ==
    ctor.n > 0 =>
        /\ Provisioned = NoSpec => env = env_before
        /\ Provisioned # NoSpec =>
               /\ \/ PROVIDERS[Provisioned].env_key = ""
                  \/ ctor.api_key # ""
                  \/ env[PROVIDERS[Provisioned].env_key]
                         = env_before[PROVIDERS[Provisioned].env_key]
               /\ \A k \in DOMAIN PROVIDERS[Provisioned].env_extras :
                      LET extra == PROVIDERS[Provisioned].env_extras[k]
                          value == replace(replace(extra.value_template,
                                                   "{api_key}", ctor.api_key),
                                           "{api_base}", EffectiveBase(Provisioned))
                      IN  (extra.key = "" \/ value = "")
                              => env[extra.key] = env_before[extra.key]

\* C11 witness: a construction with a credential, no gateway and the default
\* model "llama3", in an environment that has OPENAI_API_KEY set, changed
\* nothing
C11_Witness ==
    /\ ctor.n > 0
    /\ ctor.api_key = "sk-1"
    /\ ctor.default_model = "llama3"
    /\ provider.gateway = NoSpec
    /\ env_before["OPENAI_API_KEY"] = Some("sk-ambient")
    /\ env = env_before

\* C11 second witness: a moonshot construction whose explicit base URL is
\* empty wrote the credential and left MOONSHOT_API_BASE unset
C11_WitnessEmptyValue ==
    /\ ctor.n > 0
    /\ ctor.api_key = "sk-1"
    /\ ctor.default_model = "kimi-k2.5"
    /\ ctor.api_base = Some("")
    /\ provider.gateway = NoSpec
    /\ env["MOONSHOT_API_KEY"] = Some("sk-1")
    /\ ~env_before["MOONSHOT_API_BASE"].some
    /\ ~env["MOONSHOT_API_BASE"].some

----------------------------------------------------------------------------
(* serde_json: Value, from_str and to_string.  A Value is one of the       *)
(* records below; an object's Map is a function from its keys.  Numbers    *)
(* keep their text.  The grammar covers whitespace, the three literals,    *)
(* integers and decimal fractions, strings with the escapes of Unescape,   *)
(* arrays and objects.                                                     *)

JNull == [t |-> "null"]

JBool(b) == [t |-> "bool", b |-> b]

JNum(n) == [t |-> "num", n |-> n]

JStr(s) == [t |-> "str", s |-> s]

JArr(a) == [t |-> "arr", a |-> a]

JObj(m) == [t |-> "obj", m |-> m]

\* Map::new()
EmptyMap == <<>>

\* Value::as_object().is_some()
is_object(v) == v.t = "obj"

\* the first character of a non-empty s
Peek(s) == SubSeq(s, 1, 1)

\* s without its first n characters
Skip(s, n) == SubSeq(s, n + 1, Len(s))

Whitespace == {" ", "\n", "\t", "\r"}

Digits == {"0", "1", "2", "3", "4", "5", "6", "7", "8", "9"}

\* the character each escape letter after a backslash stands for
Unescape ==
    ("\"" :> "\"") @@ ("\\" :> "\\") @@ ("/" :> "/") @@
    ("n" :> "\n") @@ ("t" :> "\t") @@ ("r" :> "\r")

\* the result of a parser that failed
ParseFail == [ok |-> FALSE, v |-> JNull, rest |-> ""]

\* the result of a parser that read v and left rest
Parsed(v, rest) == [ok |-> TRUE, v |-> v, rest |-> rest]

RECURSIVE skip_ws(_)
skip_ws(s) ==
    IF s # "" /\ Peek(s) \in Whitespace THEN skip_ws(Skip(s, 1)) ELSE s

\* the longest prefix of s made of digits
RECURSIVE take_digits(_)
take_digits(s) ==
    IF s # "" /\ Peek(s) \in Digits THEN Peek(s) \o take_digits(Skip(s, 1)) ELSE ""

\* a string body, after its opening quote, up to the closing quote
RECURSIVE parse_str(_, _)
parse_str(s, acc) ==
    IF s = "" THEN ParseFail
    ELSE IF Peek(s) = "\"" THEN Parsed(JStr(acc), Skip(s, 1))
    ELSE IF Peek(s) = "\\"
         THEN IF Len(s) >= 2 /\ SubSeq(s, 2, 2) \in DOMAIN Unescape
              THEN parse_str(Skip(s, 2), acc \o Unescape[SubSeq(s, 2, 2)])
              ELSE ParseFail
    ELSE IF Peek(s) \in {"\n", "\t", "\r"} THEN ParseFail
    ELSE parse_str(Skip(s, 1), acc \o Peek(s))

\* a number: an optional minus, an integer without leading zeros, an
\* optional fraction
parse_number(s) ==
    LET neg == IF StartsWith(s, "-") THEN "-" ELSE ""
        int == take_digits(Skip(s, Len(neg)))
        s2 == Skip(s, Len(neg) + Len(int))
        frac == IF StartsWith(s2, ".") THEN take_digits(Skip(s2, 1)) ELSE ""
    IN  IF int = "" \/ (Len(int) > 1 /\ Peek(int) = "0") THEN ParseFail
        ELSE IF StartsWith(s2, ".")
             THEN IF frac = "" THEN ParseFail
                  ELSE Parsed(JNum(neg \o int \o "." \o frac), Skip(s2, 1 + Len(frac)))
        ELSE Parsed(JNum(neg \o int), s2)

RECURSIVE parse_value(_)
RECURSIVE parse_elements(_, _)
RECURSIVE parse_members(_, _)

\* one value, after optional whitespace
parse_value(s) ==
    LET t == skip_ws(s)
    IN  IF t = "" THEN ParseFail
        ELSE IF StartsWith(t, "null") THEN Parsed(JNull, Skip(t, 4))
        ELSE IF StartsWith(t, "true") THEN Parsed(JBool(TRUE), Skip(t, 4))
        ELSE IF StartsWith(t, "false") THEN Parsed(JBool(FALSE), Skip(t, 5))
        ELSE IF Peek(t) = "\"" THEN parse_str(Skip(t, 1), "")
        ELSE IF Peek(t) = "["
             THEN IF StartsWith(skip_ws(Skip(t, 1)), "]")
                  THEN Parsed(JArr(<<>>), Skip(skip_ws(Skip(t, 1)), 1))
                  ELSE parse_elements(Skip(t, 1), <<>>)
        ELSE IF Peek(t) = "{"
             THEN IF StartsWith(skip_ws(Skip(t, 1)), "}")
                  THEN Parsed(JObj(EmptyMap), Skip(skip_ws(Skip(t, 1)), 1))
                  ELSE parse_members(Skip(t, 1), EmptyMap)
        ELSE IF Peek(t) = "-" \/ Peek(t) \in Digits THEN parse_number(t)
        ELSE ParseFail

\* the elements of an array after "[" or ",", up to "]"
parse_elements(s, acc) ==
    LET r == parse_value(s)
        u == skip_ws(r.rest)
    IN  IF ~r.ok THEN ParseFail
        ELSE IF StartsWith(u, ",") THEN parse_elements(Skip(u, 1), Append(acc, r.v))
        ELSE IF StartsWith(u, "]") THEN Parsed(JArr(Append(acc, r.v)), Skip(u, 1))
        ELSE ParseFail

\* the members of an object after "{" or ",", up to "}"; a repeated key
\* keeps its last value
parse_members(s, acc) ==
    LET t == skip_ws(s)
        k == IF StartsWith(t, "\"") THEN parse_str(Skip(t, 1), "") ELSE ParseFail
        u == skip_ws(k.rest)
        r == IF StartsWith(u, ":") THEN parse_value(Skip(u, 1)) ELSE ParseFail
        w == skip_ws(r.rest)
    IN  IF ~k.ok \/ ~r.ok THEN ParseFail
        ELSE IF StartsWith(w, ",")
             THEN parse_members(Skip(w, 1), (k.v.s :> r.v) @@ acc)
        ELSE IF StartsWith(w, "}")
             THEN Parsed(JObj((k.v.s :> r.v) @@ acc), Skip(w, 1))
        ELSE ParseFail

\* serde_json::from_str::<Value>(s): one value and nothing but whitespace
\* after it; .ok is false where from_str returns Err
from_str(s) ==
    LET r == parse_value(s)
    IN  IF r.ok /\ skip_ws(r.rest) = "" THEN r ELSE ParseFail

\* s with each quote and backslash escaped, as to_string writes a string
RECURSIVE escape(_)
escape(s) ==
    IF s = "" THEN ""
    ELSE (IF Peek(s) \in {"\"", "\\"} THEN "\\" \o Peek(s)
          ELSE IF Peek(s) = "\n" THEN "\\n"
          ELSE Peek(s)) \o escape(Skip(s, 1))

\* Value::to_string() of a scalar, an array or an object of at most one key
RECURSIVE to_string(_)
RECURSIVE join_values(_, _)
to_string(v) ==
    CASE v.t = "null" -> "null"
      [] v.t = "bool" -> IF v.b THEN "true" ELSE "false"
      [] v.t = "num" -> v.n
      [] v.t = "str" -> "\"" \o escape(v.s) \o "\""
      [] v.t = "arr" -> "[" \o join_values(v.a, 1) \o "]"
      [] v.t = "obj" /\ DOMAIN v.m = {} -> "{}"
      [] v.t = "obj" /\ \E k \in DOMAIN v.m : DOMAIN v.m = {k} ->
             LET k == CHOOSE j \in DOMAIN v.m : TRUE
             IN  "{\"" \o escape(k) \o "\":" \o to_string(v.m[k]) \o "}"

\* the elements of a from index i on, comma-separated
join_values(a, i) ==
    IF i > Len(a) THEN ""
    ELSE to_string(a[i]) \o (IF i < Len(a) THEN "," ELSE "") \o join_values(a, i + 1)

----------------------------------------------------------------------------
(* The reply of completion() and its normalisation into an LLMResponse.    *)
(* A reply is [choices, usage]; a choice is [message, finish_reason]; a    *)
(* message is [content, thinking, tool_calls]; a backend tool call is      *)
(* [id, function |-> [name, arguments]].                                   *)

\* MessageContent::Text
Text(text) == [kind |-> "text", text |-> text]

\* MessageContent::Parts
Parts(parts) == [kind |-> "parts", parts |-> parts]

\* ContentPart::Text
TextPart(text) == [type |-> "text", text |-> text]

\* ContentPart::ToolResult
ToolResultPart(content) == [type |-> "tool_result", content |-> content]

\* a ContentPart of another kind
ImagePart == [type |-> "image_url"]

\* the serialised name of each FinishReason
FinishReasonNames ==
    ("Stop" :> "stop") @@ ("Length" :> "length") @@ ("ToolCalls" :> "tool_calls") @@
    ("ContentFilter" :> "content_filter")

\* a backend tool call
ToolCall(id, name, arguments) ==
    [id |-> id, function |-> [name |-> name, arguments |-> arguments]]

Message(content, thinking, tool_calls) ==
    [content |-> content, thinking |-> thinking, tool_calls |-> tool_calls]

Choice(message, finish_reason) ==
    [message |-> message, finish_reason |-> finish_reason]

\* Usage and its serde_json::to_value
Usage(prompt, completion) ==
    [prompt_tokens |-> prompt, completion_tokens |-> completion,
     total_tokens |-> prompt + completion]

usage_to_value(usage) ==
    JObj([k \in {"prompt_tokens", "completion_tokens", "total_tokens"} |->
             JNum(ToString(usage[k]))])

\* the text chunks of parts from index i on, joined with "\n"
RECURSIVE join_chunks(_, _, _)
join_chunks(parts, i, first) ==
    IF i > Len(parts) THEN ""
    ELSE IF parts[i].type \in {"text", "tool_result"}
         THEN (IF first THEN "" ELSE "\n")
              \o (IF parts[i].type = "text" THEN parts[i].text
                  ELSE to_string(parts[i].content))
              \o join_chunks(parts, i + 1, FALSE)
    ELSE join_chunks(parts, i + 1, first)

content_to_text(content) ==
    IF content.kind = "text" THEN content.text
    ELSE join_chunks(content.parts, 1, TRUE)

\* the arguments of a tool call with an empty map where the string does not
\* parse as an object
parse_arguments_EmptyOnError(arguments) ==
    LET r == from_str(arguments)
    IN  IF r.ok /\ is_object(r.v) THEN r.v.m ELSE EmptyMap

\* the arguments of a ToolCallRequest from the backend's argument string
parse_arguments(arguments) ==
    LET r == from_str(arguments)
    IN  IF r.ok /\ is_object(r.v) THEN r.v.m ELSE ("raw" :> JStr(arguments))

\* the LLMResponse of a reply without the early return on no choices: the
\* usage is taken from the reply
to_llm_response_UsageAlways(response) ==
    [content |-> None,
     tool_calls |-> <<>>,
     finish_reason |-> "stop",
     usage |-> IF response.usage.some THEN usage_to_value(response.usage.v).m
               ELSE EmptyMap,
     reasoning_content |-> None]

\* the LLMResponse chat returns for the reply of the call that succeeded
to_llm_response(response) ==
    IF Len(response.choices) = 0
    THEN [content |-> None,
          tool_calls |-> <<>>,
          finish_reason |-> "stop",
          usage |-> EmptyMap,
          reasoning_content |-> None]
    ELSE LET choice == response.choices[1]
             calls == IF choice.message.tool_calls.some
                      THEN choice.message.tool_calls.v ELSE <<>>
         IN  [content |-> IF choice.message.content.some
                          THEN Some(content_to_text(choice.message.content.v))
                          ELSE None,
              tool_calls |->
                  [i \in 1..Len(calls) |->
                      [id |-> calls[i].id,
                       name |-> calls[i].function.name,
                       arguments |-> parse_arguments(calls[i].function.arguments)]],
              finish_reason |-> IF choice.finish_reason.some
                                THEN FinishReasonNames[choice.finish_reason.v]
                                ELSE "stop",
              usage |-> IF response.usage.some
                        THEN usage_to_value(response.usage.v).m
                        ELSE EmptyMap,
              reasoning_content |->
                  IF choice.message.thinking.some
                     /\ choice.message.thinking.v.kind = "text"
                  THEN Some(choice.message.thinking.v.text)
                  ELSE None]

----------------------------------------------------------------------------
(* The chat call on a constructed provider.  The call is split where the   *)
(* async fn awaits completion(): after the primary call is issued and      *)
(* after the fallback call is issued.                                      *)

InitChat ==
    /\ env = EmptyEnv
    /\ env_before = EmptyEnv
    /\ provider = NoProvider
    /\ ctor = NoCtor
    /\ sel = NoSel
    /\ res = NoRes
    /\ chat = NoChat
    /\ guard = NoGuard
    /\ chats = NoChats
    /\ ctors = NoCtors

\* one provider per session: a credential, an explicit base URL or none, the
\* default model "kimi-k2.5" and a gateway by name or none
NewForChat ==
    New({"sk-1"}, {None, Some("http://localhost:8000/v1"), Some("")}, {"kimi-k2.5"},
        {None, Some("openrouter"), Some("aihubmix"), Some("vllm")}, 1)

\* Value::get(key).and_then(Value::as_str)
get_str(raw, key) ==
    IF raw.t = "obj" /\ key \in DOMAIN raw.m /\ raw.m[key].t = "str"
    THEN Some(raw.m[key].s)
    ELSE None

\* Value::get(key), JNull standing for a key that is absent
get(raw, key) ==
    IF raw.t = "obj" /\ key \in DOMAIN raw.m THEN raw.m[key] ELSE JNull

\* Value::get(key).is_some()
has(raw, key) == raw.t = "obj" /\ key \in DOMAIN raw.m

\* the serialised names of MessageRole
MessageRoles == {"system", "user", "assistant", "tool", "function"}

\* a backend wire message
WireMessage(role, content, name, tool_call_id, tool_calls, function_call) ==
    [role |-> role, content |-> content, name |-> name,
     tool_call_id |-> tool_call_id, tool_calls |-> tool_calls,
     function_call |-> function_call]

\* whether a JSON value deserialises as one ContentPart
is_content_part(v) ==
    /\ v.t = "obj"
    /\ get_str(v, "type").some
    /\ \/ get_str(v, "type").v = "text" /\ get_str(v, "text").some
       \/ get_str(v, "type").v = "tool_result" /\ has(v, "content")
       \/ get_str(v, "type").v = "image_url" /\ has(v, "image_url")

\* one ContentPart from the JSON value that deserialises as it
content_part(v) ==
    IF v.m["type"].s = "text" THEN TextPart(v.m["text"].s)
    ELSE IF v.m["type"].s = "tool_result" THEN ToolResultPart(v.m["content"])
    ELSE ImagePart

\* serde_json::from_value::<MessageContent>(Value::Array(parts)).ok()
parts_from_value(parts) ==
    IF \A i \in 1..Len(parts) : is_content_part(parts[i])
    THEN Some(Parts([i \in 1..Len(parts) |-> content_part(parts[i])]))
    ELSE None

\* the content arm of convert_message
content_from_value(raw) ==
    LET content == get(raw, "content")
    IN  IF content.t = "str" THEN Some(Text(content.s))
        ELSE IF content.t = "arr" THEN parts_from_value(content.a)
        ELSE None

\* whether a JSON value deserialises as a FunctionCall
is_function_call(v) ==
    v.t = "obj" /\ get_str(v, "name").some /\ get_str(v, "arguments").some

\* whether a JSON value deserialises as a list of tool calls
is_tool_calls(v) ==
    /\ v.t = "arr"
    /\ \A i \in 1..Len(v.a) :
          /\ get_str(v.a[i], "id").some
          /\ get_str(v.a[i], "type").some
          /\ is_function_call(get(v.a[i], "function"))

\* the field-by-field mapping of convert_message: an unknown or missing role
\* is "user", content is text, parts or nothing, and a tool_calls or
\* function_call payload that does not parse is left out
map_fields(raw) ==
    LET role == get_str(raw, "role")
    IN  WireMessage(IF role.some /\ role.v \in MessageRoles THEN role.v ELSE "user",
                    content_from_value(raw),
                    get_str(raw, "name"),
                    get_str(raw, "tool_call_id"),
                    IF has(raw, "tool_calls") /\ is_tool_calls(get(raw, "tool_calls"))
                    THEN Some(get(raw, "tool_calls")) ELSE None,
                    IF has(raw, "function_call")
                       /\ is_function_call(get(raw, "function_call"))
                    THEN Some(get(raw, "function_call")) ELSE None)

\* whether every field of a JSON value has the type Message gives it
is_native_field(raw, key, types) ==
    ~has(raw, key) \/ get(raw, key).t \in types

\* serde_json::from_value::<Message>(raw).is_ok(): an object with a known role
\* every other field of which is absent, null or of the type Message gives it
is_native_message(raw) ==
    /\ raw.t = "obj"
    /\ get_str(raw, "role").some
    /\ get_str(raw, "role").v \in MessageRoles
    /\ is_native_field(raw, "content", {"null", "str", "arr"})
    /\ get(raw, "content").t = "arr" => parts_from_value(get(raw, "content").a).some
    /\ is_native_field(raw, "name", {"null", "str"})
    /\ is_native_field(raw, "tool_call_id", {"null", "str"})
    /\ has(raw, "tool_calls") =>
           get(raw, "tool_calls").t = "null" \/ is_tool_calls(get(raw, "tool_calls"))
    /\ has(raw, "function_call") =>
           get(raw, "function_call").t = "null"
               \/ is_function_call(get(raw, "function_call"))

\* the Message serde builds from a JSON value of the native shape
from_value_Message(raw) ==
    WireMessage(raw.m["role"].s,
                content_from_value(raw),
                get_str(raw, "name"),
                get_str(raw, "tool_call_id"),
                IF get(raw, "tool_calls").t = "arr"
                THEN Some(get(raw, "tool_calls")) ELSE None,
                IF get(raw, "function_call").t = "obj"
                THEN Some(get(raw, "function_call")) ELSE None)

\* convert_message: a message of the native shape is taken as it is, any
\* other is mapped field by field
convert_message(raw) ==
    IF is_native_message(raw) THEN from_value_Message(raw) ELSE map_fields(raw)

\* whether a JSON value deserialises as a Tool: the type "function" and a
\* function object with a name
is_tool(item) ==
    /\ item.t = "obj"
    /\ get_str(item, "type") = Some("function")
    /\ get(item, "function").t = "obj"
    /\ get_str(get(item, "function"), "name").some

\* the definitions of a list that deserialise as a Tool, in order
RECURSIVE parse_tools(_)
parse_tools(tool_defs) ==
    IF tool_defs = <<>> THEN <<>>
    ELSE IF is_tool(Head(tool_defs))
         THEN <<Head(tool_defs)>> \o parse_tools(Tail(tool_defs))
         ELSE parse_tools(Tail(tool_defs))

\* the tool attachment of chat: the native list and choice when some
\* definition deserialises, the extra parameters whenever a list is given
attach_tools(options, tools) ==
    IF ~tools.some THEN options
    ELSE LET parsed_tools == parse_tools(tools.v)
             native == IF parsed_tools # <<>>
                       THEN [options EXCEPT !.tools = Some(parsed_tools),
                                            !.tool_choice = Some("auto")]
                       ELSE options
         IN  [native EXCEPT !.extra_params =
                  ("tools" :> JArr(tools.v)) @@ ("tool_choice" :> JStr("auto")) @@ @]

\* a tool definition in the wire format of the backend
ReadFileTool ==
    JObj(("type" :> JStr("function")) @@
         ("function" :> JObj(("name" :> JStr("read_file")) @@
                             ("description" :> JStr("Read a file")) @@
                             ("parameters" :> JObj("type" :> JStr("object"))))))

\* a tool definition without the "type" and "function" wrapper
BareTool ==
    JObj(("name" :> JStr("exec")) @@ ("description" :> JStr("Run a command")))

\* the tools argument of a chat
ToolLists ==
    {None, Some(<<>>), Some(<<ReadFileTool>>), Some(<<ReadFileTool, BareTool>>),
     Some(<<BareTool>>)}

\* the messages argument of a chat
Conversations ==
    {<<JObj(("role" :> JStr("system")) @@ ("content" :> JStr("You are nanobot."))),
       JObj(("role" :> JStr("user")) @@ ("content" :> JStr("read a.txt")))>>,
     <<JObj("content" :> JArr(<<JObj(("type" :> JStr("text")) @@
                                      ("text" :> JStr("read a.txt")))>>)),
       JObj(("role" :> JStr("assistant")) @@ ("content" :> JNull) @@
            ("tool_calls" :> JArr(<<JObj(("id" :> JStr("call_1")) @@
                                         ("type" :> JStr("function")) @@
                                         ("function" :>
                                              JObj(("name" :> JStr("read_file")) @@
                                                   ("arguments" :> JStr("{}")))))>>))),
       JObj(("role" :> JStr("tool")) @@ ("tool_call_id" :> JStr("call_1")) @@
            ("name" :> JStr("read_file")) @@ ("content" :> JStr("3 lines"))),
       JObj(("role" :> JStr("developer")) @@ ("content" :> JNum(7)) @@
            ("tool_calls" :> JStr("none")) @@ ("function_call" :> JArr(<<>>)))>>}

\* the max_tokens argument of a chat
MaxTokens == {4096}

\* the CompletionOptions chat builds before it attaches the tools
CompletionOptions(p, selected_model, max_tokens, effective_temperature) ==
    [max_tokens |-> max_tokens,
     temperature |-> effective_temperature,
     api_key |-> IF p.api_key = "" THEN None ELSE Some(p.api_key),
     api_base |-> effective_api_base(p, selected_model),
     headers |-> IF p.extra_headers = {} THEN None ELSE Some(p.extra_headers),
     tools |-> None,
     tool_choice |-> None,
     extra_params |-> EmptyMap]

\* the replies a completion() that succeeds may return
Responses ==
    {[choices |-> <<>>, usage |-> None],
     [choices |-> <<>>, usage |-> Some(Usage(3, 0))],
     [choices |-> <<Choice(Message(Some(Text("hello")), None, None), Some("Stop"))>>,
      usage |-> Some(Usage(3, 5))],
     [choices |-> <<Choice(Message(None, None,
                                   Some(<<ToolCall("call_1", "read_file",
                                                   "{\"path\":\"a.txt\"}"),
                                          ToolCall("call_2", "exec", "not json"),
                                          ToolCall("call_3", "list_dir", "")>>)),
                           Some("ToolCalls"))>>,
      usage |-> None],
     [choices |-> <<Choice(Message(Some(Parts(<<TextPart("a"), ImagePart,
                                                ToolResultPart(JStr("ok"))>>)),
                                   Some([kind |-> "text", text |-> "hmm"]),
                                   Some(<<>>)),
                           None)>>,
      usage |-> Some(Usage(1, 1))],
     [choices |-> <<Choice(Message(Some(Text("")), Some([kind |-> "redacted"]),
                                   Some(<<ToolCall("call_1", "exec", "[1,2]"),
                                          ToolCall("call_1", "exec", "\"ls\""),
                                          ToolCall("call_2", "exec", "{\"cmd\":"),
                                          ToolCall("call_3", "exec", "42")>>)),
                           Some("Length"))>>,
      usage |-> None],
     [choices |-> <<Choice(Message(None, None,
                                   Some(<<ToolCall("call_1", "exec",
                                                   " {\"a\":{\"b\":[true,null]}}\n"),
                                          ToolCall("call_2", "exec", "{}"),
                                          ToolCall("call_3", "exec", "{\"a\":1} x")>>)),
                           None),
                    Choice(Message(Some(Text("second")), None, None), Some("Stop"))>>,
      usage |-> None]}

\* the messages a completion() that fails may carry
CompletionErrors == {"connection refused", "401 Unauthorized"}

\* the LLMResponse field of a chat that has not returned Ok
NoResponse ==
    [content |-> None, tool_calls |-> <<>>, finish_reason |-> "",
     usage |-> EmptyMap, reasoning_content |-> None]

\* the reply field of a chat no call of which has succeeded
NoReply == [choices |-> <<>>, usage |-> None]

\* a completion() call that has been issued and has not returned
InFlight(model, messages, options) ==
    [model |-> model, messages |-> messages, options |-> options,
     status |-> "in_flight", err |-> ""]

\* chat that issues the primary and the fallback call together
chat_begin_Hedged(p, messages, tools, model, max_tokens, temperature) ==
    LET selected_model == IF model.some THEN model.v ELSE p.default_model
        resolved_model == resolve_model(p, selected_model)
        effective_temperature == apply_model_overrides(resolved_model, temperature)
        chat_messages == [i \in 1..Len(messages) |-> convert_message(messages[i])]
        options == attach_tools(CompletionOptions(p, selected_model, max_tokens,
                                                  effective_temperature), tools)
    IN  [pc |-> "primary",
         selected_model |-> selected_model,
         resolved_model |-> resolved_model,
         temperature |-> temperature,
         effective_temperature |-> effective_temperature,
         tools |-> tools,
         chat_messages |-> chat_messages,
         options |-> options,
         calls |-> IF resolved_model # selected_model
                   THEN <<InFlight(resolved_model, chat_messages, options),
                          InFlight(selected_model, chat_messages, options)>>
                   ELSE <<InFlight(resolved_model, chat_messages, options)>>,
         result |-> "pending",
         error |-> "",
         replied |-> FALSE,
         reply |-> NoReply,
         response |-> NoResponse]

\* chat up to its first await: the model is selected and resolved, the
\* overrides applied, the options built and the primary completion() issued
chat_begin(p, messages, tools, model, max_tokens, temperature) ==
    LET selected_model == IF model.some THEN model.v ELSE p.default_model
        resolved_model == resolve_model(p, selected_model)
        effective_temperature == apply_model_overrides(resolved_model, temperature)
        chat_messages == [i \in 1..Len(messages) |-> convert_message(messages[i])]
        options == attach_tools(CompletionOptions(p, selected_model, max_tokens,
                                                  effective_temperature), tools)
    IN  [pc |-> "primary",
         selected_model |-> selected_model,
         resolved_model |-> resolved_model,
         temperature |-> temperature,
         effective_temperature |-> effective_temperature,
         tools |-> tools,
         chat_messages |-> chat_messages,
         options |-> options,
         calls |-> <<InFlight(resolved_model, chat_messages, options)>>,
         result |-> "pending",
         error |-> "",
         replied |-> FALSE,
         reply |-> NoReply,
         response |-> NoResponse]

\* chat c from the Ok of its call number n to its return
chat_ok(c, n, response) ==
    [c EXCEPT !.pc = "done",
              !.calls[n].status = "ok",
              !.result = "ok",
              !.replied = TRUE,
              !.reply = response,
              !.response = to_llm_response(response)]

\* the Err arm that issues the fallback whether or not resolution changed
\* the identifier
chat_primary_err_AlwaysFallback(c, primary_err) ==
    [c EXCEPT !.pc = "fallback",
              !.calls = Append([@ EXCEPT ![1].status = "err", ![1].err = primary_err],
                               InFlight(c.selected_model, c.chat_messages, c.options))]

\* the Err arm whose fallback is sent with the temperature the caller gave
chat_primary_err_FallbackRawTemperature(c, primary_err) ==
    IF c.resolved_model # c.selected_model
    THEN [c EXCEPT !.pc = "fallback",
                   !.calls = Append([@ EXCEPT ![1].status = "err",
                                              ![1].err = primary_err],
                                    InFlight(c.selected_model, c.chat_messages,
                                             [c.options EXCEPT
                                                  !.temperature = c.temperature]))]
    ELSE [c EXCEPT !.pc = "done",
                   !.calls[1].status = "err",
                   !.calls[1].err = primary_err,
                   !.result = "err",
                   !.error = "failed to call litellm-rs completion: " \o primary_err]

\* chat c from the Err of its primary call: the fallback completion() is
\* issued with the selected model when it differs from the resolved one,
\* else chat returns the error
chat_primary_err(c, primary_err) ==
    IF c.resolved_model # c.selected_model
    THEN [c EXCEPT !.pc = "fallback",
                   !.calls = Append([@ EXCEPT ![1].status = "err",
                                              ![1].err = primary_err],
                                    InFlight(c.selected_model, c.chat_messages, c.options))]
    ELSE [c EXCEPT !.pc = "done",
                   !.calls[1].status = "err",
                   !.calls[1].err = primary_err,
                   !.result = "err",
                   !.error = "failed to call litellm-rs completion: " \o primary_err]

\* the fallback's Err arm that returns an empty response
chat_fallback_err_EmptyResponse(c, fallback_err) ==
    [c EXCEPT !.pc = "done",
              !.calls[2].status = "err",
              !.calls[2].err = fallback_err,
              !.result = "ok",
              !.response = to_llm_response(NoReply)]

\* the fallback's Err arm that reports the fallback's message alone
chat_fallback_err_DropsPrimary(c, fallback_err) ==
    [c EXCEPT !.pc = "done",
              !.calls[2].status = "err",
              !.calls[2].err = fallback_err,
              !.result = "err",
              !.error = "failed to call litellm-rs completion: " \o fallback_err]

\* chat c from the Err of its fallback call to its return
chat_fallback_err(c, fallback_err) ==
    [c EXCEPT !.pc = "done",
              !.calls[2].status = "err",
              !.calls[2].err = fallback_err,
              !.result = "err",
              !.error = "failed to call litellm-rs completion: primary="
                            \o c.calls[1].err \o "; fallback=" \o fallback_err]

\* the models a chat is asked for
ChatModels ==
    {"kimi-k2.5", "KIMI-K2.5", "moonshot/kimi-k2.5", "openrouter/moonshot/kimi-k2.5",
     "qwen-plus", "dashscope/qwen-plus", "gpt-4o", "openai/gpt-4o", "llama3",
     "hosted_vllm/llama3", "minimax-m1", "anthropic/claude-3-7-sonnet"}

ChatBegin ==
    /\ provider.built
    /\ chat.pc = "idle"
    /\ \E messages \in Conversations, tools \in ToolLists,
          model \in {None} \cup {Some(m) : m \in ChatModels},
          max_tokens \in MaxTokens, temperature \in Temperatures :
          chat' = chat_begin(provider, messages, tools, model, max_tokens, temperature)
    /\ UNCHANGED <<env, env_before, provider, ctor, sel, res, guard, chats, ctors>>

\* the primary completion() returns Ok
PrimaryOk ==
    /\ chat.pc = "primary"
    /\ \E response \in Responses : chat' = chat_ok(chat, 1, response)
    /\ UNCHANGED <<env, env_before, provider, ctor, sel, res, guard, chats, ctors>>

\* the primary completion() returns Err
PrimaryErr ==
    /\ chat.pc = "primary"
    /\ \E primary_err \in CompletionErrors : chat' = chat_primary_err(chat, primary_err)
    /\ UNCHANGED <<env, env_before, provider, ctor, sel, res, guard, chats, ctors>>

\* the fallback completion() returns Ok
FallbackOk ==
    /\ chat.pc = "fallback"
    /\ \E response \in Responses : chat' = chat_ok(chat, 2, response)
    /\ UNCHANGED <<env, env_before, provider, ctor, sel, res, guard, chats, ctors>>

\* the fallback completion() returns Err
FallbackErr ==
    /\ chat.pc = "fallback"
    /\ \E fallback_err \in CompletionErrors :
          chat' = chat_fallback_err(chat, fallback_err)
    /\ UNCHANGED <<env, env_before, provider, ctor, sel, res, guard, chats, ctors>>

Init == InitChat

Next ==
    \/ NewForChat
    \/ ChatBegin
    \/ PrimaryOk
    \/ PrimaryErr
    \/ FallbackOk
    \/ FallbackErr

Spec == Init /\ [][Next]_vars

\* C8: in chat the override rules come from the vendor descriptor of the
\* requested model, never from the gateway: the vendor of the resolved
\* identifier is the vendor of the requested identifier, and a requested
\* model whose vendor has a matching rule is sent with that rule's
\* temperature whichever gateway rewrote the identifier.
C8_OverrideVendorOfRequestedModel ==
    chat.pc # "idle" =>
        LET d == FirstVendor(chat.selected_model)
            M == IF d = NoSpec THEN {}
                 ELSE {k \in DOMAIN PROVIDERS[d].model_overrides :
                          RuleMatches(d, k, chat.selected_model)}
        IN  /\ FirstVendor(chat.resolved_model) = d
            /\ M # {} =>
                  chat.options.temperature =
                      PROVIDERS[d].model_overrides[
                          CHOOSE k \in M : \A j \in M : k <= j].temperature.v

\* C12: in a chat, the fallback call, with the raw requested identifier, has
\* been made if and only if the primary call failed and the resolved
\* identifier differs from the raw one; it is never made after a primary
\* call that succeeded nor when the two identifiers are equal.
C12_FallbackIff ==
    chat.pc # "idle" =>
        /\ Len(chat.calls) >= 2
               <=> /\ chat.calls[1].status = "err"
                   /\ chat.resolved_model # chat.selected_model
        /\ Len(chat.calls) >= 2 => chat.calls[2].model = chat.selected_model
        /\ chat.calls[1].status = "ok" => Len(chat.calls) = 1
        /\ chat.resolved_model = chat.selected_model => Len(chat.calls) = 1

\* C12 witness: the primary call for "moonshot/kimi-k2.5" failed and the
\* fallback call for "kimi-k2.5" is in flight
C12_Witness ==
    /\ chat.pc = "fallback"
    /\ chat.selected_model = "kimi-k2.5"
    /\ chat.calls[1].model = "moonshot/kimi-k2.5"
    /\ chat.calls[1].status = "err"
    /\ Len(chat.calls) = 2
    /\ chat.calls[2].model = "kimi-k2.5"
    /\ chat.calls[2].status = "in_flight"

\* C13 as stated: a chat that returned an error made a primary and a
\* fallback call and both failed, and a chat that returned otherwise
\* returned an LLMResponse.
C13_AsStated ==
    chat.pc = "done" =>
        /\ chat.result = "err" =>
               /\ Len(chat.calls) = 2
               /\ chat.calls[1].status = "err"
               /\ chat.calls[2].status = "err"
        /\ chat.result # "err" => chat.result = "ok"

\* C13 amended: chat returns an error exactly when every remote call it
\* made has failed: the primary and the fallback call when the resolved
\* identifier differs from the raw one, the primary call alone when the two
\* are identical; in every other outcome it returns the LLMResponse of the
\* reply of the call that succeeded.
C13_ErrorOnlyWhenAllCallsFailed ==
    chat.pc = "done" =>
        /\ chat.result \in {"ok", "err"}
        /\ chat.result = "err"
               <=> /\ chat.calls[1].status = "err"
                   /\ IF chat.resolved_model # chat.selected_model
                      THEN Len(chat.calls) = 2 /\ chat.calls[2].status = "err"
                      ELSE Len(chat.calls) = 1
        /\ chat.result = "err" => ~chat.replied
        /\ chat.result = "ok" =>
               /\ chat.replied
               /\ chat.calls[Len(chat.calls)].status = "ok"
               /\ chat.response = to_llm_response(chat.reply)

\* C13 witness: a chat for "gpt-4o", which resolves to itself, returned an
\* error after its one call failed
C13_Witness ==
    /\ chat.pc = "done"
    /\ chat.result = "err"
    /\ chat.selected_model = "gpt-4o"
    /\ chat.resolved_model = "gpt-4o"
    /\ Len(chat.calls) = 1
    /\ chat.calls[1].status = "err"

\* C14: the error chat returns carries every failure that occurred: after a
\* failed primary and a failed fallback it contains both messages, and when
\* the resolved and raw identifiers are identical it is the primary's
\* message and no further call was made.
C14_ErrorCarriesEveryFailure ==
    (chat.pc = "done" /\ chat.result = "err") =>
        /\ \A i \in 1..Len(chat.calls) :
               /\ chat.calls[i].status = "err"
               /\ chat.calls[i].err \in CompletionErrors
               /\ Contains(chat.error, chat.calls[i].err)
        /\ Len(chat.calls) = 2 =>
               chat.error = "failed to call litellm-rs completion: primary="
                                \o chat.calls[1].err \o "; fallback="
                                \o chat.calls[2].err
        /\ chat.resolved_model = chat.selected_model =>
               /\ Len(chat.calls) = 1
               /\ chat.error = "failed to call litellm-rs completion: "
                                   \o chat.calls[1].err

\* C14 witness: the primary failed with "connection refused", the fallback
\* with "401 Unauthorized", and the error names both
C14_Witness ==
    /\ chat.pc = "done"
    /\ chat.result = "err"
    /\ Len(chat.calls) = 2
    /\ chat.calls[1].err = "connection refused"
    /\ chat.calls[2].err = "401 Unauthorized"
    /\ chat.error = "failed to call litellm-rs completion: primary=connection refused; fallback=401 Unauthorized"

\* C15: one chat makes at most two remote calls, the first with the
\* resolved identifier; the second exists only once the first has failed,
\* so at most one call is in flight at any time.
C15_AtMostTwoSequentialCalls ==
    chat.pc # "idle" =>
        /\ Len(chat.calls) \in {1, 2}
        /\ chat.calls[1].model = chat.resolved_model
        /\ Len(chat.calls) = 2 => chat.calls[1].status = "err"
        /\ Cardinality({i \in 1..Len(chat.calls) :
                           chat.calls[i].status = "in_flight"}) <= 1
        /\ chat.pc = "done" =>
               \A i \in 1..Len(chat.calls) : chat.calls[i].status # "in_flight"

\* C15 witness: under aihubmix the call for "openai/qwen-plus" failed and
\* then the call for "dashscope/qwen-plus" succeeded
C15_Witness ==
    /\ chat.pc = "done"
    /\ Len(chat.calls) = 2
    /\ chat.calls[1].model = "openai/qwen-plus"
    /\ chat.calls[1].status = "err"
    /\ chat.calls[2].model = "dashscope/qwen-plus"
    /\ chat.calls[2].status = "ok"

\* C16: when the call that succeeded, primary or fallback, returned a reply
\* with no choices, chat returns Ok with content absent, no tool calls,
\* finish_reason "stop", an empty usage map and reasoning_content absent,
\* whatever usage the reply carried.
C16_ZeroChoices ==
    (/\ chat.pc # "idle"
     /\ \E i \in 1..Len(chat.calls) : chat.calls[i].status = "ok"
     /\ Len(chat.reply.choices) = 0) =>
        /\ chat.pc = "done"
        /\ chat.replied
        /\ chat.result = "ok"
        /\ ~chat.response.content.some
        /\ chat.response.tool_calls = <<>>
        /\ chat.response.finish_reason = "stop"
        /\ DOMAIN chat.response.usage = {}
        /\ ~chat.response.reasoning_content.some

\* C16 witness: the fallback call succeeded with a reply that has no choices
\* and a usage record, and chat returned the empty response
C16_Witness ==
    /\ chat.pc = "done"
    /\ chat.replied
    /\ Len(chat.calls) = 2
    /\ chat.calls[2].status = "ok"
    /\ Len(chat.reply.choices) = 0
    /\ chat.reply.usage.some
    /\ chat.result = "ok"
    /\ chat.response.finish_reason = "stop"
    /\ DOMAIN chat.response.usage = {}

\* the argument strings among the drawn replies that are not a JSON object
NotObjectTexts == {"not json", "", "[1,2]", "\"ls\"", "{\"cmd\":", "42", "{\"a\":1} x"}

\* C17: once a call has succeeded chat returns Ok whatever the reply; the
\* response has one ToolCallRequest per tool call of the reply's first
\* choice, in the same order and with the same id and name; the arguments
\* are the parsed object when the argument string is a JSON object and
\* {"raw": the string} when it is invalid JSON or JSON that is not an
\* object; a finish reason the reply lacks becomes "stop".
C17_ShapeProblemsNeverFail ==
    (/\ chat.pc # "idle"
     /\ \E i \in 1..Len(chat.calls) : chat.calls[i].status = "ok") =>
        /\ chat.pc = "done"
        /\ chat.replied
        /\ chat.result = "ok"
        /\ Len(chat.reply.choices) > 0 =>
               LET choice == chat.reply.choices[1]
                   calls == IF choice.message.tool_calls.some
                            THEN choice.message.tool_calls.v ELSE <<>>
               IN  /\ Len(chat.response.tool_calls) = Len(calls)
                   /\ \A i \in 1..Len(calls) :
                          LET request == chat.response.tool_calls[i]
                              text == calls[i].function.arguments
                              parsed == from_str(text)
                          IN  /\ request.id = calls[i].id
                              /\ request.name = calls[i].function.name
                              /\ (parsed.ok /\ is_object(parsed.v))
                                     => request.arguments = parsed.v.m
                              /\ ~(parsed.ok /\ is_object(parsed.v))
                                     => request.arguments = ("raw" :> JStr(text))
                              /\ text \in NotObjectTexts
                                     => request.arguments = ("raw" :> JStr(text))
                              /\ text = "{\"path\":\"a.txt\"}"
                                     => request.arguments = ("path" :> JStr("a.txt"))
                   /\ ~choice.finish_reason.some
                          => chat.response.finish_reason = "stop"
                   /\ choice.finish_reason.some
                          => chat.response.finish_reason
                                 = FinishReasonNames[choice.finish_reason.v]

\* C17 witness: a reply with three tool calls, the second with the
\* arguments "not json" and the third with none, gave three requests in
\* that order, the second and third with the string under "raw"
C17_Witness ==
    /\ chat.pc = "done"
    /\ chat.replied
    /\ chat.result = "ok"
    /\ Len(chat.response.tool_calls) = 3
    /\ chat.response.tool_calls[1].id = "call_1"
    /\ chat.response.tool_calls[1].arguments = ("path" :> JStr("a.txt"))
    /\ chat.response.tool_calls[2].id = "call_2"
    /\ chat.response.tool_calls[2].arguments = ("raw" :> JStr("not json"))
    /\ chat.response.tool_calls[3].arguments = ("raw" :> JStr(""))

\* C17 second witness: a reply without a finish reason gave "stop"
C17_WitnessFinish ==
    /\ chat.pc = "done"
    /\ chat.replied
    /\ Len(chat.reply.choices) > 0
    /\ ~chat.reply.choices[1].finish_reason.some
    /\ chat.response.finish_reason = "stop"
    /\ chat.response.content.some
    /\ chat.response.content.v = "a\n\"ok\""
    /\ chat.response.reasoning_content.some

\* C18: every call of a chat carries the explicit base URL when the
\* provider was built with one; otherwise the selected gateway's default
\* base URL when it has one; otherwise the default base URL of the vendor
\* of the requested model when it has one; otherwise none.
C18_BaseUrlPrecedence ==
    chat.pc # "idle" =>
        LET d == FirstVendor(chat.selected_model)
            expected ==
                IF ctor.api_base.some THEN ctor.api_base
                ELSE IF /\ provider.gateway # NoSpec
                        /\ PROVIDERS[provider.gateway].default_api_base # ""
                     THEN Some(PROVIDERS[provider.gateway].default_api_base)
                ELSE IF d # NoSpec /\ PROVIDERS[d].default_api_base # ""
                     THEN Some(PROVIDERS[d].default_api_base)
                ELSE None
        IN  /\ \A i \in 1..Len(chat.calls) : chat.calls[i].options.api_base = expected
            /\ (ctor.api_base = None /\ ctor.provider_name = Some("vllm")
                    /\ chat.selected_model = "kimi-k2.5")
                   => chat.options.api_base = Some("https://api.moonshot.ai/v1")
            /\ (ctor.api_base = None /\ ctor.provider_name = None
                    /\ chat.selected_model = "gpt-4o")
                   => chat.options.api_base = None

\* C18 witness: a provider with an explicit base URL under the gateway
\* openrouter sent the explicit one with both calls for a moonshot model
C18_Witness ==
    /\ chat.pc = "done"
    /\ ctor.api_base = Some("http://localhost:8000/v1")
    /\ ctor.provider_name = Some("openrouter")
    /\ chat.selected_model = "kimi-k2.5"
    /\ Len(chat.calls) = 2
    /\ chat.calls[1].options.api_base = Some("http://localhost:8000/v1")
    /\ chat.calls[2].options.api_base = Some("http://localhost:8000/v1")

\* C18 second witness: the gateway vllm has no default base URL and the call
\* for "kimi-k2.5" carried the default of the vendor moonshot
C18_WitnessVendor ==
    /\ chat.pc # "idle"
    /\ ~ctor.api_base.some
    /\ ctor.provider_name = Some("vllm")
    /\ chat.selected_model = "kimi-k2.5"
    /\ chat.calls[1].options.api_base = Some("https://api.moonshot.ai/v1")

----------------------------------------------------------------------------
(* TurnGuard (src/agent/turn_guard.rs): the classifier that asks the       *)
(* provider whether an assistant response claims that no tools exist.      *)
(* The provider is a dyn LLMProvider: its chat returns Err or an           *)
(* LLMResponse.  The call is split at the one await.                       *)

RECURSIVE trim_start(_)
trim_start(s) ==
    IF s # "" /\ Peek(s) \in Whitespace THEN trim_start(Skip(s, 1)) ELSE s

RECURSIVE trim_end(_)
trim_end(s) ==
    IF s # "" /\ SubSeq(s, Len(s), Len(s)) \in Whitespace
    THEN trim_end(SubSeq(s, 1, Len(s) - 1))
    ELSE s

\* str::trim
trim(s) == trim_end(trim_start(s))

\* the inner loop of extract_json_object from position pos on: the index of
\* the '}' that brings depth back to 0, or 0 when the loop ends without one
RECURSIVE brace_end(_, _, _, _, _)
brace_end(text, pos, depth, in_string, escaped) ==
    IF pos > Len(text) THEN 0
    ELSE LET c == SubSeq(text, pos, pos)
         IN  IF in_string
             THEN IF escaped THEN brace_end(text, pos + 1, depth, TRUE, FALSE)
                  ELSE IF c = "\\" THEN brace_end(text, pos + 1, depth, TRUE, TRUE)
                  ELSE IF c = "\"" THEN brace_end(text, pos + 1, depth, FALSE, FALSE)
                  ELSE brace_end(text, pos + 1, depth, TRUE, FALSE)
             ELSE IF c = "\"" THEN brace_end(text, pos + 1, depth, TRUE, FALSE)
             ELSE IF c = "{" THEN brace_end(text, pos + 1, depth + 1, FALSE, FALSE)
             ELSE IF c = "}"
                  THEN IF depth = 0 THEN 0
                       ELSE IF depth - 1 = 0 THEN pos
                       ELSE brace_end(text, pos + 1, depth - 1, FALSE, FALSE)
             ELSE brace_end(text, pos + 1, depth, FALSE, FALSE)

\* the outer loop of extract_json_object from position start on
RECURSIVE scan_candidates(_, _)
scan_candidates(text, start) ==
    IF start > Len(text) THEN None
    ELSE IF SubSeq(text, start, start) # "{" THEN scan_candidates(text, start + 1)
    ELSE LET end == brace_end(text, start, 0, FALSE, FALSE)
             value == IF end > 0 THEN from_str(SubSeq(text, start, end))
                      ELSE ParseFail
         IN  IF value.ok /\ is_object(value.v) THEN Some(value.v)
             ELSE scan_candidates(text, start + 1)

extract_json_object(text) ==
    LET whole == from_str(trim(text))
    IN  IF whole.ok /\ is_object(whole.v) THEN Some(whole.v)
        ELSE scan_candidates(text, 1)

\* the verdict that reads a missing or non-boolean key as true
claims_no_tools_DefaultTrue(response) ==
    IF ~response.content.some THEN FALSE
    ELSE LET value == extract_json_object(response.content.v)
         IN  IF ~value.some THEN FALSE
             ELSE IF "claims_no_tools" \notin DOMAIN value.v.m THEN TRUE
             ELSE IF value.v.m["claims_no_tools"].t # "bool" THEN TRUE
             ELSE value.v.m["claims_no_tools"].b

\* the rest of response_claims_no_tools once chat has returned Ok(response)
claims_no_tools(response) ==
    IF ~response.content.some THEN FALSE
    ELSE LET value == extract_json_object(response.content.v)
         IN  IF ~value.some THEN FALSE
             ELSE IF "claims_no_tools" \notin DOMAIN value.v.m THEN FALSE
             ELSE IF value.v.m["claims_no_tools"].t # "bool" THEN FALSE
             ELSE value.v.m["claims_no_tools"].b

\* the two messages response_claims_no_tools sends
classifier_messages(tools_text, content) ==
    <<[role |-> "system",
       content |-> "You are a strict classifier. Return ONLY one JSON object with boolean key claims_no_tools. If the assistant response explicitly or implicitly claims that tools are unavailable in the current runtime, set claims_no_tools=true. Otherwise false. Do not output markdown or extra text."],
      [role |-> "user",
       content |-> "Runtime tools are available: " \o tools_text
                       \o ".\nAssistant response:\n" \o content]>>

\* max_tokens of the classifier's chat call
ClassifierMaxTokens == 120

\* should_retry_after_false_no_tools_claim on guard g that returned result
\* before any chat call
returned_early(g, content, iteration) ==
    [g EXCEPT !.pc = "done", !.content = content, !.iteration = iteration,
              !.calls = <<>>, !.outcome = "none", !.result = FALSE]

\* the guard that asks the classifier about blank content too
should_retry_begin_AsksOnBlank(g, content, iteration) ==
    IF iteration >= g.max_iterations \/ g.tools_text = "(none)"
    THEN returned_early(g, content, iteration)
    ELSE IF ~content.some THEN returned_early(g, content, iteration)
    ELSE [g EXCEPT !.pc = "chat", !.content = content, !.iteration = iteration,
                   !.calls = <<[messages |-> classifier_messages(g.tools_text, content.v),
                                tools |-> None,
                                model |-> Some(g.model),
                                max_tokens |-> ClassifierMaxTokens,
                                temperature |-> 0]>>,
                   !.outcome = "none", !.result = FALSE]

\* should_retry_after_false_no_tools_claim and response_claims_no_tools up
\* to the await of provider.chat, or to an early return
should_retry_begin(g, content, iteration) ==
    IF iteration >= g.max_iterations \/ g.tools_text = "(none)"
    THEN returned_early(g, content, iteration)
    ELSE IF ~content.some THEN returned_early(g, content, iteration)
    ELSE IF trim(content.v) = "" \/ g.tools_text = "(none)"
         THEN returned_early(g, content, iteration)
    ELSE [g EXCEPT !.pc = "chat", !.content = content, !.iteration = iteration,
                   !.calls = <<[messages |-> classifier_messages(g.tools_text, content.v),
                                tools |-> None,
                                model |-> Some(g.model),
                                max_tokens |-> ClassifierMaxTokens,
                                temperature |-> 0]>>,
                   !.outcome = "none", !.result = FALSE]

\* response_claims_no_tools from the Ok of provider.chat to its return
classifier_ok(g, response) ==
    [g EXCEPT !.pc = "done", !.outcome = "ok", !.response = response,
              !.result = claims_no_tools(response)]

\* response_claims_no_tools from the Err of provider.chat to its return
classifier_err(g) ==
    [g EXCEPT !.pc = "done", !.outcome = "err", !.result = FALSE]

\* the most iterations a TurnGuard allows
MaxIterations == 2

ToolsTexts == {"(none)", "read_file, exec"}

\* the assistant responses the guard is asked about
GuardContents ==
    {None, Some(""), Some(" \n"), Some("I cannot run commands here."),
     Some("Done: the file has 3 lines.")}

\* the texts the classifier model may answer with (a code fence is written
\* with tildes)
ClassifierTexts ==
    {"{\"claims_no_tools\":true}", "{\"claims_no_tools\":false}",
     "~~~json\n{\"claims_no_tools\":false}\n~~~",
     "~~~json\n{\"claims_no_tools\": true}\n~~~",
     "  {\"claims_no_tools\":true}\n",
     "Sure: {\"claims_no_tools\":true} done",
     "[{\"claims_no_tools\":true}]",
     "{ {\"claims_no_tools\":true} }",
     "{ not json } {\"claims_no_tools\":true}",
     "x {\"note\":\"}\"} {\"claims_no_tools\":true}",
     "{\"a\":{\"claims_no_tools\":true}}",
     "{\"claims_no_tools\":\"yes\"}", "{\"claims_no_tools\":1}",
     "{\"claims_no_tools\":null}", "{\"other\":true}", "{}",
     "no json here", "", "[true]", "true", "{\"claims_no_tools\":true",
     "\"{\\\"claims_no_tools\\\":true}\"", "} {"}

\* the LLMResponse values the guard's provider may return
ClassifierResponses ==
    {[NoResponse EXCEPT !.finish_reason = "stop"]} \cup
    {[NoResponse EXCEPT !.finish_reason = "stop", !.content = Some(text)] :
        text \in ClassifierTexts}

\* TurnGuard::new
InitGuard ==
    /\ env = EmptyEnv
    /\ env_before = EmptyEnv
    /\ provider = NoProvider
    /\ ctor = NoCtor
    /\ sel = NoSel
    /\ res = NoRes
    /\ chat = NoChat
    /\ chats = NoChats
    /\ ctors = NoCtors
    /\ \E tools_text \in ToolsTexts, max_iterations \in 0..MaxIterations :
          guard = [pc |-> "idle", model |-> "gpt-4o", tools_text |-> tools_text,
                   max_iterations |-> max_iterations, content |-> None,
                   iteration |-> 0, calls |-> <<>>, outcome |-> "none",
                   response |-> NoResponse, result |-> FALSE]

ShouldRetry ==
    /\ guard.pc = "idle"
    /\ \E content \in GuardContents, iteration \in 0..MaxIterations :
          guard' = should_retry_begin(guard, content, iteration)
    /\ UNCHANGED <<env, env_before, provider, ctor, sel, res, chat, chats, ctors>>

\* provider.chat returns Ok
ClassifierOk ==
    /\ guard.pc = "chat"
    /\ \E response \in ClassifierResponses : guard' = classifier_ok(guard, response)
    /\ UNCHANGED <<env, env_before, provider, ctor, sel, res, chat, chats, ctors>>

\* provider.chat returns Err
ClassifierErr ==
    /\ guard.pc = "chat"
    /\ guard' = classifier_err(guard)
    /\ UNCHANGED <<env, env_before, provider, ctor, sel, res, chat, chats, ctors>>

NextGuard == ShouldRetry \/ ClassifierOk \/ ClassifierErr

SpecGuard == InitGuard /\ [][NextGuard]_vars

\* the drawn classifier texts that hold no JSON object
NoObjectTexts ==
    {"no json here", "", "[true]", "true", "{\"claims_no_tools\":true",
     "\"{\\\"claims_no_tools\\\":true}\"", "} {"}

\* the drawn classifier texts whose first JSON object has no boolean
\* claims_no_tools key
NoBooleanKeyTexts ==
    {"{\"claims_no_tools\":\"yes\"}", "{\"claims_no_tools\":1}",
     "{\"claims_no_tools\":null}", "{\"other\":true}", "{}",
     "{\"a\":{\"claims_no_tools\":true}}",
     "x {\"note\":\"}\"} {\"claims_no_tools\":true}"}

\* C19: the classifier returns false when the provider's chat returned an
\* error, when the reply has no content, when no JSON object can be
\* extracted from the reply and when the extracted object has no boolean
\* claims_no_tools key; it returns true only if one chat call succeeded and
\* the object extracted from its reply has claims_no_tools = true.
C19_ClassifierFailsClosed ==
    guard.pc = "done" =>
        LET content == guard.response.content
            value == IF content.some THEN extract_json_object(content.v) ELSE None
            key == "claims_no_tools"
        IN  /\ guard.outcome = "err" => ~guard.result
            /\ (guard.outcome = "ok" /\ ~content.some) => ~guard.result
            /\ (guard.outcome = "ok" /\ content.some /\ ~value.some) => ~guard.result
            /\ (guard.outcome = "ok" /\ value.some /\ key \notin DOMAIN value.v.m)
                   => ~guard.result
            /\ (guard.outcome = "ok" /\ value.some /\ key \in DOMAIN value.v.m
                    /\ value.v.m[key].t # "bool") => ~guard.result
            /\ (guard.outcome = "ok" /\ content.some
                    /\ content.v \in NoObjectTexts \cup NoBooleanKeyTexts)
                   => ~guard.result
            /\ guard.result =>
                   /\ guard.outcome = "ok"
                   /\ Len(guard.calls) = 1
                   /\ content.some
                   /\ value.some
                   /\ key \in DOMAIN value.v.m
                   /\ value.v.m[key] = JBool(TRUE)

\* C19 witness: the classifier's reply held the object in a code fence and
\* the verdict is true
C19_Witness ==
    /\ guard.pc = "done"
    /\ guard.outcome = "ok"
    /\ guard.response.content = Some("~~~json\n{\"claims_no_tools\": true}\n~~~")
    /\ guard.result

\* C19 second witness: the classifier's chat call failed and the verdict is
\* false
C19_WitnessErr ==
    /\ guard.pc = "done"
    /\ guard.outcome = "err"
    /\ Len(guard.calls) = 1
    /\ ~guard.result

\* C19 third witness: the first object of the reply has no claims_no_tools
\* key, a later one has, and the verdict is false
C19_WitnessFirstObject ==
    /\ guard.pc = "done"
    /\ guard.outcome = "ok"
    /\ guard.response.content = Some("x {\"note\":\"}\"} {\"claims_no_tools\":true}")
    /\ ~guard.result

----------------------------------------------------------------------------
(* One provider shared by several callers: chat takes &self, so the chats  *)
(* of the callers interleave at their awaits.                              *)

SharedModels == {None, Some("gpt-4o"), Some("glm-4")}

SharedResponses ==
    {[choices |-> <<>>, usage |-> None],
     [choices |-> <<Choice(Message(Some(Text("hello")), None, None), Some("Stop"))>>,
      usage |-> Some(Usage(3, 5))]}

\* the conversation every caller sends
SharedMessages == <<JObj(("role" :> JStr("user")) @@ ("content" :> JStr("hello")))>>

InitShared ==
    /\ env \in AmbientEnvs
    /\ env_before = env
    /\ provider = NoProvider
    /\ ctor = NoCtor
    /\ sel = NoSel
    /\ res = NoRes
    /\ chat = NoChat
    /\ guard = NoGuard
    /\ chats = NoChats
    /\ ctors = NoCtors

\* the one construction of the session, with a credential
NewForShared == New({"sk-1"}, {None}, {"kimi-k2.5"}, {None, Some("aihubmix")}, 1)

\* a chat that provisions the environment for the model it is asked for
SharedChatBegin_Provisions(c) ==
    /\ provider.built
    /\ chats[c].pc = "idle"
    /\ \E model \in SharedModels :
          /\ chats' = [chats EXCEPT ![c] = chat_begin(provider, SharedMessages, None, model, 4096, 2)]
          /\ env' = setup_env([provider EXCEPT !.gateway = NoSpec],
                              IF model.some THEN model.v ELSE provider.default_model,
                              env)
    /\ UNCHANGED <<env_before, provider, ctor, sel, res, chat, guard, ctors>>

\* caller c calls chat
SharedChatBegin(c) ==
    /\ provider.built
    /\ chats[c].pc = "idle"
    /\ \E model \in SharedModels :
          chats' = [chats EXCEPT ![c] = chat_begin(provider, SharedMessages, None, model, 4096, 2)]
    /\ UNCHANGED <<env, env_before, provider, ctor, sel, res, chat, guard, ctors>>

\* the completion() caller c awaits returns Ok
SharedCompletionOk(c) ==
    /\ chats[c].pc \in {"primary", "fallback"}
    /\ \E response \in SharedResponses :
          chats' = [chats EXCEPT ![c] = chat_ok(@, Len(@.calls), response)]
    /\ UNCHANGED <<env, env_before, provider, ctor, sel, res, chat, guard, ctors>>

\* the completion() caller c awaits returns Err
SharedCompletionErr(c) ==
    /\ chats[c].pc \in {"primary", "fallback"}
    /\ chats' = [chats EXCEPT ![c] =
                    IF @.pc = "primary" THEN chat_primary_err(@, "connection refused")
                    ELSE chat_fallback_err(@, "connection refused")]
    /\ UNCHANGED <<env, env_before, provider, ctor, sel, res, chat, guard, ctors>>

\* caller c has its result and may call chat again
SharedChatReturn(c) ==
    /\ chats[c].pc = "done"
    /\ chats' = [chats EXCEPT ![c] = NoChat]
    /\ UNCHANGED <<env, env_before, provider, ctor, sel, res, chat, guard, ctors>>

NextShared ==
    \/ NewForShared
    \/ \E c \in Callers :
          \/ SharedChatBegin(c)
          \/ SharedCompletionOk(c)
          \/ SharedCompletionErr(c)
          \/ SharedChatReturn(c)

SpecShared == InitShared /\ [][NextShared]_vars

\* C20: once built, the provider and the environment keep the values the
\* construction left, however many chats the callers run and however they
\* interleave: in every state the provider is the value new built and the
\* environment is the one new left, and no step of a chat changes either.
C20_ChatReadOnly ==
    /\ [](ctor.n > 0 =>
             /\ provider = new(ctor.api_key, ctor.api_base, ctor.default_model, {},
                               ctor.provider_name)
             /\ env = new_env(provider, env_before))
    /\ [][(chats' # chats) => (provider' = provider /\ env' = env)]_vars

\* C20 witness: caller 1 awaits its fallback call while caller 2 has its
\* response, and ZAI_API_KEY, which a chat for "glm-4" would provision, is
\* unset as the construction left it
C20_Witness ==
    /\ chats[1].pc = "fallback"
    /\ chats[2].pc = "done"
    /\ chats[2].result = "ok"
    /\ chats[2].selected_model = "glm-4"
    /\ env["MOONSHOT_API_KEY"] = Some("sk-1")
    /\ ~env["ZAI_API_KEY"].some
    /\ env = new_env(provider, env_before)

----------------------------------------------------------------------------
(* Constructions on several threads.  set_env_var reads the environment    *)
(* (std::env::var_os) and writes it (std::env::set_var) in two separate    *)
(* calls, each atomic under the standard library's environment lock; a     *)
(* construction is split at each of them.  In mode "serialized" the        *)
(* callers hold a lock around LiteLLMProvider::new; in mode "interleaved"  *)
(* they do not.                                                            *)

\* the most threads that construct a provider
NumThreads == 2

Threads == 1..NumThreads

\* the set_env_var calls setup_env makes for provider p and model, in order,
\* each as its arguments [key, value, overwrite]
set_env_var_calls(p, model) ==
    LET spec == IF p.gateway # NoSpec THEN p.gateway ELSE find_by_model(model)
    IN  IF spec = NoSpec THEN <<>>
        ELSE LET effective_base == IF p.api_base.some THEN p.api_base.v
                                   ELSE PROVIDERS[spec].default_api_base
                 extras == PROVIDERS[spec].env_extras
             IN  (IF PROVIDERS[spec].env_key # ""
                  THEN <<[key |-> PROVIDERS[spec].env_key, value |-> p.api_key,
                          overwrite |-> p.gateway # NoSpec]>>
                  ELSE <<>>)
                 \o [k \in 1..Len(extras) |->
                        [key |-> extras[k].key,
                         value |-> replace(replace(extras[k].value_template,
                                                   "{api_key}", p.api_key),
                                           "{api_base}", effective_base),
                         overwrite |-> FALSE]]

\* the two tests of set_env_var without the look at the environment
passes_checks_IgnoresExisting(e, call) ==
    call.key # "" /\ call.value # ""

\* the two tests of set_env_var in environment e: TRUE when the call goes on
\* to std::env::set_var
passes_checks(e, call) ==
    /\ ~(call.key = "" \/ call.value = "")
    /\ ~(~call.overwrite /\ e[call.key].some)

\* thread record th after its set_env_var call number th.i has returned
next_call(th, e) ==
    IF th.i + 1 > Len(th.calls)
    THEN [th EXCEPT !.pc = "done", !.after = e]
    ELSE [th EXCEPT !.pc = "check", !.i = th.i + 1]

IdleThread ==
    [pc |-> "idle", p |-> NoProvider, calls |-> <<>>, i |-> 0,
     before |-> EmptyEnv, after |-> EmptyEnv]

InitRace ==
    /\ env \in {EmptyEnv, OnlySet("OPENAI_API_KEY", "sk-ambient")}
    /\ env_before = env
    /\ provider = NoProvider
    /\ ctor = NoCtor
    /\ sel = NoSel
    /\ res = NoRes
    /\ chat = NoChat
    /\ guard = NoGuard
    /\ chats = NoChats
    /\ \E mode \in {"serialized", "interleaved"} :
          ctors = [mode |-> mode, threads |-> [t \in Threads |-> IdleThread],
                   writes |-> <<>>]

\* thread t enters LiteLLMProvider::new and runs it up to the first
\* set_env_var call, or to its return when there is none
CtorBegin(t) ==
    /\ ctors.threads[t].pc = "idle"
    /\ ctors.mode = "serialized" =>
           \A u \in Threads : ctors.threads[u].pc \in {"idle", "done"}
    /\ \E api_key \in {"", "sk-1", "sk-2"}, default_model \in {"gpt-4o", "kimi-k2.5"},
          provider_name \in {None, Some("aihubmix")} :
          LET p == new(api_key, None, default_model, {}, provider_name)
              calls == IF p.api_key # "" THEN set_env_var_calls(p, p.default_model)
                       ELSE <<>>
          IN  ctors' = [ctors EXCEPT !.threads[t] =
                           [pc |-> IF calls = <<>> THEN "done" ELSE "check",
                            p |-> p, calls |-> calls, i |-> 1,
                            before |-> env, after |-> env]]
    /\ UNCHANGED <<env, env_before, provider, ctor, sel, res, chat, guard, chats>>

\* thread t runs the tests of its current set_env_var call, the look at the
\* environment included
CtorCheck(t) ==
    LET th == ctors.threads[t]
    IN  /\ th.pc = "check"
        /\ ctors' = [ctors EXCEPT !.threads[t] =
                        IF passes_checks(env, th.calls[th.i])
                        THEN [th EXCEPT !.pc = "write"]
                        ELSE next_call(th, env)]
        /\ UNCHANGED <<env, env_before, provider, ctor, sel, res, chat, guard, chats>>

\* thread t runs the std::env::set_var of its current set_env_var call
CtorWrite(t) ==
    LET th == ctors.threads[t]
        call == th.calls[th.i]
        e == [env EXCEPT ![call.key] = Some(call.value)]
    IN  /\ th.pc = "write"
        /\ env' = e
        /\ ctors' = [ctors EXCEPT
                        !.threads[t] = next_call(th, e),
                        !.writes = Append(@, [thread |-> t, key |-> call.key,
                                              value |-> call.value,
                                              replaced |-> env[call.key]])]
        /\ UNCHANGED <<env_before, provider, ctor, sel, res, chat, guard, chats>>

NextRace ==
    \E t \in Threads : CtorBegin(t) \/ CtorCheck(t) \/ CtorWrite(t)

SpecRace == InitRace /\ [][NextRace]_vars

\* write number j of the log replaced a value that another thread's vendor
\* construction had published, the writer being a vendor construction too
Overwrites(j) ==
    \E i \in 1..(j - 1) :
        /\ ctors.writes[i].key = ctors.writes[j].key
        /\ ctors.writes[i].thread # ctors.writes[j].thread
        /\ ctors.threads[ctors.writes[i].thread].p.gateway = NoSpec
        /\ ctors.threads[ctors.writes[j].thread].p.gateway = NoSpec
        /\ ctors.writes[j].replaced = Some(ctors.writes[i].value)

\* C21: when the constructions are serialized, no vendor construction
\* overwrites a value another vendor construction has published, and each
\* construction leaves the environment setup_env computes from the one it
\* found; so an overwrite is reachable only when the constructions
\* interleave between the test and the write of set_env_var.
C21_SerializedNeverOverwrites ==
    ctors.mode = "serialized" =>
        /\ \A j \in 1..Len(ctors.writes) : ~Overwrites(j)
        /\ \A t \in Threads :
               ctors.threads[t].pc = "done" =>
                   ctors.threads[t].after
                       = new_env(ctors.threads[t].p, ctors.threads[t].before)

\* C21 witness: two interleaved vendor constructions for "gpt-4o" with the
\* credentials sk-1 and sk-2 both found OPENAI_API_KEY unset; thread 1
\* published sk-1 and thread 2 then replaced it by sk-2
C21_Witness ==
    /\ ctors.mode = "interleaved"
    /\ ctors.threads[1].pc = "done"
    /\ ctors.threads[2].pc = "done"
    /\ ctors.threads[1].p.gateway = NoSpec
    /\ ctors.threads[2].p.gateway = NoSpec
    /\ Len(ctors.writes) = 2
    /\ ctors.writes[1] = [thread |-> 1, key |-> "OPENAI_API_KEY", value |-> "sk-1",
                          replaced |-> None]
    /\ ctors.writes[2] = [thread |-> 2, key |-> "OPENAI_API_KEY", value |-> "sk-2",
                          replaced |-> Some("sk-1")]
    /\ Overwrites(2)
    /\ env["OPENAI_API_KEY"] = Some("sk-2")

\* C22: a construction repeated with the same credential, base URL, default
\* model and provider name leaves every environment variable as the first
\* of the two left it, whatever the environment was before them.
C22_ConstructionIdempotent ==
    (res.op = "new_again" /\ res.n = ctor.n) =>
        /\ env = res.first
        /\ \A k \in EnvKeys : env[k] = env_before[k]

\* C22 witness: a gateway construction replaced the ambient OPENAI_API_KEY
\* by sk-1, and the same construction repeated left sk-1 there
C22_Witness ==
    /\ res.op = "new_again"
    /\ res.n = ctor.n
    /\ ctor.n = 2
    /\ ctor.provider_name = Some("aihubmix")
    /\ ctor.api_key = "sk-1"
    /\ res.first["OPENAI_API_KEY"] = Some("sk-1")
    /\ env["OPENAI_API_KEY"] = Some("sk-1")


----------------------------------------------------------------------------
(* The tool attachment of a chat                                           *)

\* what the extra parameters of an outbound request say about tools
carries_duplicate(options, tool_defs) ==
    /\ "tools" \in DOMAIN options.extra_params
    /\ options.extra_params["tools"] = JArr(tool_defs)
    /\ "tool_choice" \in DOMAIN options.extra_params
    /\ options.extra_params["tool_choice"] = JStr("auto")

\* what the native fields of an outbound request say about tools
carries_native(options, tool_defs) ==
    /\ options.tools.some
    /\ options.tools.v = tool_defs
    /\ options.tool_choice = Some("auto")

\* C23: every outbound request of a chat that is given tool definitions
\* carries them both in the native tool list and in the extra parameters,
\* with the tool choice "auto" in both; every outbound request of a chat
\* that is given none carries no tools and no tool choice in either.
C23_ToolsThroughBothMechanisms ==
    chat.pc # "idle" =>
        \A i \in 1..Len(chat.calls) :
            LET options == chat.calls[i].options
            IN  IF chat.tools.some
                THEN /\ carries_native(options, chat.tools.v)
                     /\ carries_duplicate(options, chat.tools.v)
                ELSE /\ ~options.tools.some
                     /\ ~options.tool_choice.some
                     /\ DOMAIN options.extra_params \cap {"tools", "tool_choice"} = {}

\* a chat given an empty list of tools: the extra parameters carry a tool
\* choice, the native fields none
C23_EmptyList ==
    /\ chat.pc # "idle"
    /\ chat.tools = Some(<<>>)
    /\ ~chat.calls[1].options.tool_choice.some
    /\ chat.calls[1].options.extra_params["tool_choice"] = JStr("auto")

\* a chat given two definitions one of which does not deserialise: the
\* native list carries one tool, the extra parameters two
C23_PartlyParsed ==
    /\ chat.pc # "idle"
    /\ chat.tools = Some(<<ReadFileTool, BareTool>>)
    /\ chat.calls[1].options.tools = Some(<<ReadFileTool>>)
    /\ chat.calls[1].options.extra_params["tools"] = JArr(<<ReadFileTool, BareTool>>)

\* a chat given one well-formed definition, after its fallback was issued
C23_WellFormed ==
    /\ chat.pc = "fallback"
    /\ chat.tools = Some(<<ReadFileTool>>)
    /\ carries_native(chat.calls[2].options, <<ReadFileTool>>)
    /\ carries_duplicate(chat.calls[2].options, <<ReadFileTool>>)


----------------------------------------------------------------------------
(* The chat calls of the turn guard                                        *)

\* the cases in which the guard is to return without asking the classifier
no_call_case(g) ==
    \/ g.iteration >= g.max_iterations
    \/ g.tools_text = "(none)"
    \/ ~g.content.some
    \/ trim(g.content.v) = ""

\* C24: should_retry_after_false_no_tools_claim has issued no chat call and
\* returned false when the iteration has reached max_iterations, the tools
\* text is "(none)" or the content is absent or blank; in every other case
\* it has issued exactly one chat call, with no tools and temperature 0.0,
\* at the await of that call and after its return alike.
C24_NoneOrExactlyOneCall ==
    guard.pc \in {"chat", "done"} =>
        IF no_call_case(guard)
        THEN /\ guard.pc = "done"
             /\ guard.calls = <<>>
             /\ ~guard.result
        ELSE /\ Len(guard.calls) = 1
             /\ ~guard.calls[1].tools.some
             /\ guard.calls[1].temperature = 0

\* C24 witness: a claim that tools are missing, asked once and answered
C24_Witness ==
    /\ guard.pc = "done"
    /\ guard.content = Some("I cannot run commands here.")
    /\ guard.iteration + 1 = guard.max_iterations
    /\ guard.outcome = "ok"
    /\ Len(guard.calls) = 1
    /\ guard.calls[1].temperature = 0
    /\ guard.calls[1].tools = None

\* C24 second witness: blank content before the last iteration, with tools
\* registered, returns false without a call
C24_WitnessBlank ==
    /\ guard.pc = "done"
    /\ guard.content = Some(" \n")
    /\ guard.iteration < guard.max_iterations
    /\ guard.tools_text # "(none)"
    /\ guard.calls = <<>>
    /\ ~guard.result

\* C24 third witness: the last iteration reached, with content that would
\* be asked about
C24_WitnessLastIteration ==
    /\ guard.pc = "done"
    /\ guard.content = Some("I cannot run commands here.")
    /\ guard.iteration = guard.max_iterations
    /\ guard.max_iterations > 0
    /\ guard.tools_text # "(none)"
    /\ guard.calls = <<>>


----------------------------------------------------------------------------
(* The primary and the fallback call of one chat                           *)

\* C25: when a chat has issued its fallback call, that call names the
\* selected model where the primary call names the resolved one, and
\* everything else is the same in both: the converted messages and the
\* options (max tokens, the temperature after the overrides of the resolved
\* identifier, credential, base URL, headers, native tools and tool choice,
\* extra parameters).
C25_FallbackDiffersInModelOnly ==
    (chat.pc # "idle" /\ Len(chat.calls) = 2) =>
        /\ chat.calls[1].model = chat.resolved_model
        /\ chat.calls[2].model = chat.selected_model
        /\ chat.calls[2].model # chat.calls[1].model
        /\ chat.calls[2].messages = chat.calls[1].messages
        /\ chat.calls[2].options = chat.calls[1].options
        /\ chat.calls[2].options.temperature =
               apply_model_overrides(chat.resolved_model, chat.temperature)

\* C25 witness: a fallback call issued with tools attached, a base URL and
\* a temperature the overrides changed
C25_Witness ==
    /\ chat.pc = "fallback"
    /\ Len(chat.calls) = 2
    /\ chat.calls[1].status = "err"
    /\ chat.calls[2].model = "kimi-k2.5"
    /\ chat.calls[2].options.temperature # chat.temperature
    /\ chat.calls[2].options.tools = Some(<<ReadFileTool>>)
    /\ chat.calls[2].options.api_base.some
    /\ Len(chat.calls[2].messages) = 4
    /\ chat.calls[2].options = chat.calls[1].options

====
